---------------------------- MODULE Spec2Model ----------------------------
(***************************************************************************)
(* Account credential lifecycle of antigravity-agent: the state store      *)
(* adapter (antigravity_cleanup.rs, antigravity_restore.rs), the extension *)
(* connection registry (server/websocket.rs), the host process helpers     *)
(* (main.rs, platform_utils) and the switch orchestrator                   *)
(* (services/account.rs).                                                  *)
(***************************************************************************)
EXTENDS Integers, Sequences, FiniteSets, TLC

(***************************************************************************)
(* Bounds of the model.                                                    *)
(***************************************************************************)
\* I/O faults (failing SQLite calls, failing process spawns) injected per behaviour.
MaxFaults == 1
\* WebSocket sessions that may ever be started in one behaviour.
MaxClients == 2
\* switch() calls issued in one behaviour.
MaxCalls == 2
\* switch() calls in flight at the same time.
MaxReqs == 2
\* Threads that save an account at the same time.
MaxSavers == 2
\* Save calls issued in one behaviour.
MaxSaves == 2

(***************************************************************************)
(* The state store: rows of ItemTable of state.vscdb, by key.              *)
(***************************************************************************)
AuthKey == "antigravityAuthStatus"
ProfileKey == "antigravity.profileUrl"
OnboardingKey == "antigravityOnboarding"
MarkerKey == "__$__targetStorageMarker"
SettingsKey == "antigravityUserSettings.allUserSettings"
AnalyticsKey == "antigravityAnalytics.lastUploadTime"
JetskiKey == "jetskiStateSync.agentManagerInitState"
\* A row the adapter has no business with.
OtherKey == "workbench.sideBar.size"

Keys ==
  {AuthKey, ProfileKey, OnboardingKey, MarkerKey, SettingsKey, AnalyticsKey,
   JetskiKey, OtherKey}

\* No row with that key.
Absent == "<no row>"
\* The value a row of the live store holds before the agent touches it.
Live == "<live>"

\* Stands for the JSON literal of antigravity_cleanup.rs line 11.
RESET_MARKER_VALUE == "<logged-out marker>"

DELETE_KEYS == <<AuthKey, ProfileKey, OnboardingKey>>

\* A database file: missing, a SQLite file without ItemTable, or ItemTable's rows.
NoRows == [k \in Keys |-> Absent]
NoFile == [exists |-> FALSE, table |-> FALSE, rows |-> NoRows]
\* What Connection::open creates when the path does not exist.
EmptyDb == [exists |-> TRUE, table |-> FALSE, rows |-> NoRows]
Table(rows) == [exists |-> TRUE, table |-> TRUE, rows |-> rows]

Opened(file) == IF file.exists THEN file ELSE EmptyDb

(***************************************************************************)
(* Faults.  A clear fault names the statements of clear_database whose     *)
(* conn.execute returns Err (1..3: the DELETEs in DELETE_KEYS order, 4:    *)
(* the UPDATE of the marker); a restore fault names the one statement of   *)
(* restore_database that returns Err (0: none).  open: Connection::open     *)
(* returns Err.                                                            *)
(***************************************************************************)
NoClearFault == [open |-> FALSE, stmts |-> {}]
ClearFaults ==
  {[open |-> TRUE, stmts |-> {}]} \cup [open : {FALSE}, stmts : SUBSET (1..4)]
ClearCost(f) == (IF f.open THEN 1 ELSE 0) + Cardinality(f.stmts)

NoRestoreFault == [open |-> FALSE, failAt |-> 0]
RestoreFaults ==
  {[open |-> TRUE, failAt |-> 0]} \cup [open : {FALSE}, failAt : 0..5]
RestoreCost(f) == (IF f.open THEN 1 ELSE 0) + (IF f.failAt # 0 THEN 1 ELSE 0)

(***************************************************************************)
(* clear_database (antigravity_cleanup.rs 33-77).  A statement on a file   *)
(* without ItemTable fails; every statement error is printed and skipped.  *)
(***************************************************************************)
ClearStmtFails(file, fault, i) == ~file.table \/ i \in fault.stmts

\* Mutant: the reset also deletes the user settings row.
MutClearDatabaseDropsSettings(file, fault) ==
  IF fault.open
    THEN [ok |-> FALSE, count |-> 0, file |-> file]
    ELSE
      LET f == Opened(file)
          deleted == {i \in 1..3 : ~ClearStmtFails(f, fault, i)}
          rows1 == [k \in Keys |->
                      IF k = SettingsKey \/ \E i \in deleted : DELETE_KEYS[i] = k
                        THEN Absent ELSE f.rows[k]]
          updated == ~ClearStmtFails(f, fault, 4) /\ rows1[MarkerKey] # Absent
          rows2 == [rows1 EXCEPT ![MarkerKey] =
                      IF updated THEN RESET_MARKER_VALUE ELSE @]
      IN [ok |-> TRUE, count |-> Cardinality(deleted),
          file |-> [f EXCEPT !.rows = rows2]]

clear_database(file, fault) ==
  IF fault.open
    THEN [ok |-> FALSE, count |-> 0, file |-> file]
    ELSE
      LET f == Opened(file)
          deleted == {i \in 1..3 : ~ClearStmtFails(f, fault, i)}
          rows1 == [k \in Keys |->
                      IF \E i \in deleted : DELETE_KEYS[i] = k
                        THEN Absent ELSE f.rows[k]]
          \* UPDATE ... WHERE key = marker: touches the row only if it exists
          updated == ~ClearStmtFails(f, fault, 4) /\ rows1[MarkerKey] # Absent
          rows2 == [rows1 EXCEPT
                      ![MarkerKey] = IF updated THEN RESET_MARKER_VALUE ELSE @]
          count == Cardinality({i \in deleted : f.rows[DELETE_KEYS[i]] # Absent})
                     + (IF updated THEN 1 ELSE 0)
      IN [ok |-> TRUE, count |-> count, file |-> [f EXCEPT !.rows = rows2]]

(***************************************************************************)
(* clear_all_antigravity_data (antigravity_cleanup.rs 89-143): the primary *)
(* file, then the .backup sibling when it exists.                          *)
(***************************************************************************)
clear_all_antigravity_data(d, fp, fs) ==
  IF ~d.primary.exists
    THEN [ok |-> FALSE, kind |-> "db_missing", n |-> 0, db |-> d]
    ELSE
      LET p == clear_database(d.primary, fp) IN
      IF ~p.ok
        THEN [ok |-> FALSE, kind |-> "clear_primary_failed", n |-> 0,
              db |-> [d EXCEPT !.primary = p.file]]
        ELSE
          IF d.sibling.exists
            THEN LET s == clear_database(d.sibling, fs) IN
                 [ok |-> TRUE, kind |-> "cleared",
                  n |-> IF s.ok THEN 2 ELSE 1,
                  db |-> [primary |-> p.file, sibling |-> s.file]]
            ELSE [ok |-> TRUE, kind |-> "cleared", n |-> 1,
                  db |-> [d EXCEPT !.primary = p.file]]

(***************************************************************************)
(* Account backup files (<accounts dir>/<account_name>.json) as restore    *)
(* reads them: missing, not parseable as JSON, or a JSON object.  A field  *)
(* of the object is absent, a JSON value that is no string (as_str() is    *)
(* None), or a string.                                                     *)
(***************************************************************************)
NoField == "<no field>"
NonString == "<not a string>"
IsStr(v) == v # NoField /\ v # NonString

\* The fields restore_database reads.
RestoreFields ==
  {"auth_status", "profile_url", "user_settings", "target_storage_marker"}
\* The fields backup_current writes (services/account.rs 234-245).
BackupFields == {JetskiKey, AuthKey}
Fields == RestoreFields \cup BackupFields

NoJson == [f \in Fields |-> NoField]
MissingFile == [exists |-> FALSE, valid |-> FALSE, json |-> NoJson]
CorruptFile == [exists |-> TRUE, valid |-> FALSE, json |-> NoJson]
JsonFile(json) == [exists |-> TRUE, valid |-> TRUE, json |-> json]

(***************************************************************************)
(* restore_database (antigravity_restore.rs 28-111).  Statements 1..4 run  *)
(* only when their field is a string, statement 5 always; the first        *)
(* failing statement returns Err and leaves the earlier upserts in place.  *)
(***************************************************************************)
RestoreStmts ==
  << [field |-> "auth_status", key |-> AuthKey],
     [field |-> "profile_url", key |-> ProfileKey],
     [field |-> "user_settings", key |-> SettingsKey],
     [field |-> "target_storage_marker", key |-> MarkerKey],
     [field |-> "", key |-> AnalyticsKey] >>

\* Mutant: the marker is written whether or not the snapshot carries one.
MutRestoreRunsMarkerAlways(backup_data, i) ==
  i >= 4 \/ IsStr(backup_data[RestoreStmts[i].field])

\* Mutant: the analytics timestamp is reset only when the marker is restored.
MutRestoreRunsAnalyticsWithMarker(backup_data, i) ==
  IsStr(backup_data[RestoreStmts[IF i = 5 THEN 4 ELSE i].field])

RestoreRuns(backup_data, i) ==
  i = 5 \/ IsStr(backup_data[RestoreStmts[i].field])
RestoreValue(backup_data, i) ==
  IF i = 5 THEN "0" ELSE backup_data[RestoreStmts[i].field]

restore_database(file, backup_data, fault) ==
  IF fault.open
    THEN [ok |-> FALSE, count |-> 0, file |-> file]
    ELSE
      LET f == Opened(file)
          failing == {i \in 1..5 : RestoreRuns(backup_data, i)
                                     /\ (~f.table \/ fault.failAt = i)}
          stop == IF failing = {} THEN 6
                  ELSE CHOOSE i \in failing : \A j \in failing : i <= j
          done == {i \in 1..5 : i < stop /\ RestoreRuns(backup_data, i)}
          rows == [k \in Keys |->
                     IF \E i \in done : RestoreStmts[i].key = k
                       THEN RestoreValue(backup_data,
                              CHOOSE i \in done : RestoreStmts[i].key = k)
                       ELSE f.rows[k]]
      IN [ok |-> stop = 6,
          count |-> Cardinality(done \ {5}),
          file |-> [f EXCEPT !.rows = rows]]

(***************************************************************************)
(* restore_all_antigravity_data (antigravity_restore.rs 130-204).          *)
(***************************************************************************)
restore_all_antigravity_data(d, backup_file, fp, fs) ==
  IF ~backup_file.exists
    THEN [ok |-> FALSE, kind |-> "backup_missing", n |-> 0, db |-> d]
  ELSE IF ~backup_file.valid
    THEN [ok |-> FALSE, kind |-> "backup_unparseable", n |-> 0, db |-> d]
  ELSE
    LET p == restore_database(d.primary, backup_file.json, fp) IN
    IF ~p.ok
      THEN [ok |-> FALSE, kind |-> "restore_primary_failed", n |-> 0,
            db |-> [d EXCEPT !.primary = p.file]]
      ELSE
        IF d.sibling.exists
          THEN LET s == restore_database(d.sibling, backup_file.json, fs) IN
               [ok |-> TRUE, kind |-> "restored",
                n |-> IF s.ok THEN 2 ELSE 1,
                db |-> [primary |-> p.file, sibling |-> s.file]]
          ELSE [ok |-> TRUE, kind |-> "restored", n |-> 1,
                db |-> [d EXCEPT !.primary = p.file]]

(***************************************************************************)
(* Host process helpers (main.rs, platform_utils).  A text is the sequence *)
(* of its fragments; format! concatenates, contains() looks for a fragment.*)
(* The Chinese literals of the source are given in English.                *)
(***************************************************************************)
\* The arms of the match on std::env::consts::OS.
SupportedOS == {"windows", "macos", "linux"}

Contains(text, needle) == \E i \in DOMAIN text : text[i] = needle

\* What the operating system answers to the kill tool (taskkill / pkill):
\*   spawn_missing, spawn_denied: Command::output() returns Err;
\*   killed: exit status 0; no_match: no process of that name;
\*   kill_denied: a process matched and could not be terminated.
KillOutcomes ==
  {"spawn_missing", "spawn_denied", "killed", "no_match", "kill_denied"}
KillFaulty(outcome) ==
  outcome \in {"spawn_missing", "spawn_denied", "kill_denied"}

\* Display of the io::Error of a failed spawn.
SpawnErrorText(o, outcome) ==
  IF o = "windows"
    THEN IF outcome = "spawn_missing"
           THEN <<"program ", "not found">>
           ELSE <<"Access is denied. (os error 5)">>
    ELSE IF outcome = "spawn_missing"
           THEN <<"No such file or directory (os error 2)">>
           ELSE <<"Permission denied (os error 13)">>

\* stderr of the tool on a non-zero exit, as {:?} prints it.  taskkill names
\* the process it did not find; pkill exits 1 without writing anything.
KillStderr(o, outcome) ==
  IF o = "windows"
    THEN IF outcome = "no_match"
           THEN <<"ERROR: The process ", "not found", ".">>
           ELSE <<"ERROR: The process could not be terminated. Access is denied.">>
    ELSE IF outcome = "no_match"
           THEN <<"">>
           ELSE <<"pkill: killing pid failed: Operation not permitted">>

kill_antigravity_processes(o, outcome) ==
  IF o \notin SupportedOS
    THEN [ok |-> FALSE, text |-> <<"unsupported operating system">>]
  ELSE IF outcome \in {"spawn_missing", "spawn_denied"}
    THEN [ok |-> FALSE,
          text |-> <<"failed to run the kill command: ">> \o SpawnErrorText(o, outcome)]
  ELSE IF outcome = "killed"
    THEN [ok |-> TRUE, text |-> <<"Antigravity process closed">>]
  ELSE [ok |-> FALSE, text |-> <<"failed to close the process: ">> \o KillStderr(o, outcome)]

\* Whether the host process is gone after the call.
KillStops(o, outcome) ==
  o \in SupportedOS /\ outcome = "killed"

start_antigravity(o, launched) ==
  IF o \notin SupportedOS
    THEN [ok |-> FALSE, text |-> <<"unsupported operating system">>]
  ELSE IF launched
    THEN [ok |-> TRUE, text |-> <<"Antigravity started">>]
  ELSE [ok |-> FALSE, text |-> <<"cannot start Antigravity, start it by hand">>]

(***************************************************************************)
(* WsSession (server/websocket.rs 303-332).  Time is counted in seconds:   *)
(* age is the time since hb was last set, due the time until the interval  *)
(* timer of hb() fires next.                                               *)
(***************************************************************************)
HEARTBEAT_INTERVAL == 5
CLIENT_TIMEOUT == 10

\* quiet is the time since an inbound frame of any kind was handled.  last
\* names the inbound frame the session handled in its latest step ("none"
\* when that step was no frame), why what made the actor stop.  silent
\* records that some period longer than CLIENT_TIMEOUT has passed without an
\* inbound frame.
NewSession ==
  [state |-> "new", age |-> 0, quiet |-> 0, due |-> HEARTBEAT_INTERVAL,
   last |-> "none", why |-> "none", silent |-> FALSE]

\* A session whose actor has stopped: the WsSession is dropped.
StoppedSession(why) == [NewSession EXCEPT !.state = "stopped", !.why = why]

\* The inbound items StreamHandler::handle (356-404) tells apart: protocol
\* ping and pong, a text frame holding a pong, an rpc_response, another
\* message of the protocol or no parseable message, a binary frame, a close
\* frame, a ws::ProtocolError, and the frames of the last arm (continuation,
\* nop).
FrameKinds ==
  {"ping", "pong", "text_pong", "text_rpc_response", "text_other",
   "text_malformed", "binary", "close", "protocol_error", "other"}

\* Mutant: a text frame that does not parse ends the session.
MutHandleMalformedStops(sess, kind) ==
  [sess EXCEPT
     !.age = IF kind \in {"ping", "pong", "text_pong", "text_rpc_response",
                          "text_other", "text_malformed"} THEN 0 ELSE @,
     !.quiet = 0,
     !.state = IF kind \in {"close", "protocol_error", "text_malformed"}
                 THEN "stopping" ELSE @,
     !.why = IF kind \in {"close", "protocol_error", "text_malformed"}
               THEN kind ELSE @,
     !.last = kind]

\* StreamHandler::handle (356-404): the arms that set self.hb, the arms
\* that call ctx.stop().
handle(sess, kind) ==
  [sess EXCEPT
     !.age = IF kind \in {"ping", "pong", "text_pong", "text_rpc_response",
                          "text_other", "text_malformed"} THEN 0 ELSE @,
     !.quiet = 0,
     !.state = IF kind \in {"close", "protocol_error"} THEN "stopping" ELSE @,
     !.why = IF kind \in {"close", "protocol_error"} THEN kind ELSE @,
     !.last = kind]

\* Mutant: the heartbeat check logs the timeout and pings on.
MutHbNeverStops(sess) ==
  [sess EXCEPT !.due = HEARTBEAT_INTERVAL, !.last = "none"]

\* The closure run_interval calls in hb (324-331).
hb(sess) ==
  IF sess.age > CLIENT_TIMEOUT
    THEN [sess EXCEPT !.state = "stopping", !.why = "heartbeat_timeout",
                      !.last = "none"]
    ELSE [sess EXCEPT !.due = HEARTBEAT_INTERVAL, !.last = "none"]

(***************************************************************************)
(* ConnectionManager (server/websocket.rs 178-266): the registry is the    *)
(* set of ids of its HashMap.                                              *)
(***************************************************************************)
register(cs, id) == cs \cup {id}
\* Mutant: unregister leaves the map as it is.
MutUnregisterKeeps(cs, id) == cs
unregister(cs, id) == cs \ {id}
client_count(cs) == Cardinality(cs)
has_connections(cs) == cs # {}
\* broadcast: do_send of the message to every client of the map.
broadcast(cs, boxes, message) ==
  [c \in DOMAIN boxes |-> IF c \in cs THEN boxes[c] \cup {message} ELSE boxes[c]]

(***************************************************************************)
(* The lock of the registry: clients is a parking_lot::RwLock around the   *)
(* HashMap (websocket.rs 45, 180).  write() is granted when nobody holds   *)
(* the lock, read() when no writer holds it.                               *)
(***************************************************************************)
FreeLock == [writers |-> {}, readers |-> {}]

MutCanWriteAmongReaders(l) == l.writers = {}

CanWrite(l) == l.writers = {} /\ l.readers = {}

CanRead(l) == l.writers = {}

\* A thread that uses the registry: a session's actor (register in started,
\* unregister in stopped) or a caller of the public API (broadcast, count).
\* local is the map a writer works on, seen the map a reader found when it
\* got the lock, sent the clients a broadcast has done do_send to, n the
\* length the call read.
IdleTask ==
  [pc |-> "idle", op |-> "none", local |-> {}, seen |-> {}, sent |-> {},
   n |-> 0]
SessionTask(c) == <<"session", c>>
CallerTask(k) == <<"caller", k>>

(***************************************************************************)
(* Export encryption: encrypt_config_data and decrypt_config_data          *)
(* (commands/account_manage_commands.rs 264-442).  Texts and byte strings  *)
(* are sequences of bytes.                                                 *)
(***************************************************************************)
RECURSIVE Sum(_)
Sum(s) == IF s = <<>> THEN 0 ELSE s[1] + Sum(Tail(s))

RECURSIVE Xor(_, _)
Xor(a, b) ==
  IF a = 0 THEN b
  ELSE IF b = 0 THEN a
  ELSE (((a % 2) + (b % 2)) % 2) + 2 * Xor(a \div 2, b \div 2)

Ok(val) == [ok |-> TRUE, val |-> val, err |-> ""]
Err(err) == [ok |-> FALSE, val |-> <<>>, err |-> err]

\* base64 STANDARD: the alphabet A-Z a-z 0-9 + / and the padding =.
Base64Pad == 61
Base64Char(d) ==
  IF d < 26 THEN 65 + d
  ELSE IF d < 52 THEN 71 + d
  ELSE IF d < 62 THEN d - 4
  ELSE IF d = 62 THEN 43 ELSE 47
Base64Val(c) ==
  IF c \in 65..90 THEN c - 65
  ELSE IF c \in 97..122 THEN c - 71
  ELSE IF c \in 48..57 THEN c + 4
  ELSE IF c = 43 THEN 62
  ELSE IF c = 47 THEN 63 ELSE -1

\* Character j of the encoding: the six bits it carries come from the
\* group of three bytes it belongs to; a group cut short is padded.
BASE64_encode(b) ==
  LET n == Len(b)
      At(k) == IF k <= n THEN b[k] ELSE 0
  IN [j \in 1..(4 * ((n + 2) \div 3)) |->
        LET g == 3 * ((j - 1) \div 4)
            r == (j - 1) % 4
        IN IF r = 0 THEN Base64Char(At(g + 1) \div 4)
           ELSE IF r = 1
             THEN Base64Char((At(g + 1) % 4) * 16 + At(g + 2) \div 16)
           ELSE IF r = 2
             THEN IF g + 2 > n THEN Base64Pad
                  ELSE Base64Char((At(g + 2) % 16) * 4 + At(g + 3) \div 64)
           ELSE IF g + 3 > n THEN Base64Pad
                ELSE Base64Char(At(g + 3) % 64)]

\* The text is canonical base64: whole groups of four, padding only at the
\* end of the last group, no bits set beyond the last byte.
Base64Canonical(t) ==
  LET n == Len(t) IN
  /\ n % 4 = 0
  /\ \A i \in 1..n :
       \/ Base64Val(t[i]) >= 0
       \/ /\ t[i] = Base64Pad
          /\ i >= n - 1
          /\ i = n - 1 => t[n] = Base64Pad
  /\ n > 0 =>
       /\ Base64Val(t[n - 3]) >= 0
       /\ Base64Val(t[n - 2]) >= 0
       /\ t[n - 1] = Base64Pad => Base64Val(t[n - 2]) % 16 = 0
       /\ (t[n - 1] # Base64Pad /\ t[n] = Base64Pad) =>
            Base64Val(t[n - 1]) % 4 = 0

\* Byte k of the decoding of a canonical text.
Base64Bytes(t) ==
  LET n == Len(t)
      pads == IF n = 0 THEN 0
              ELSE IF t[n - 1] = Base64Pad THEN 2
              ELSE IF t[n] = Base64Pad THEN 1 ELSE 0
  IN [k \in 1..(3 * (n \div 4) - pads) |->
        LET g == 4 * ((k - 1) \div 3)
            r == (k - 1) % 3
            v1 == Base64Val(t[g + 1])
            v2 == Base64Val(t[g + 2])
            v3 == Base64Val(t[g + 3])
            v4 == Base64Val(t[g + 4])
        IN IF r = 0 THEN v1 * 4 + v2 \div 16
           ELSE IF r = 1 THEN (v2 % 16) * 16 + v3 \div 4
           ELSE (v3 % 4) * 64 + v4]

BASE64_decode(t) ==
  IF Base64Canonical(t) THEN Ok(Base64Bytes(t)) ELSE Err("base64")

\* String::from_utf8 / std::str::from_utf8: the bytes are well-formed UTF-8.
\* Every byte is a continuation byte that follows the first byte of its
\* character, or the first byte of a character whose continuation bytes
\* follow it in the ranges that first byte allows.
Utf8Len(c) ==
  IF c < 128 THEN 1
  ELSE IF c \in 194..223 THEN 2
  ELSE IF c \in 224..239 THEN 3
  ELSE IF c \in 240..244 THEN 4
  ELSE 0
Utf8Second(c) ==
  IF c = 224 THEN 160..191
  ELSE IF c = 237 THEN 128..159
  ELSE IF c = 240 THEN 144..191
  ELSE IF c = 244 THEN 128..143
  ELSE 128..191
Utf8Valid(b) ==
  \A i \in 1..Len(b) :
    IF b[i] \in 128..191
      THEN \E k \in 1..3 :
             /\ i - k >= 1
             /\ Utf8Len(b[i - k]) > k
             /\ \A j \in 1..(k - 1) : b[i - j] \in 128..191
      ELSE /\ Utf8Len(b[i]) > 0
           /\ i + Utf8Len(b[i]) - 1 <= Len(b)
           /\ Utf8Len(b[i]) > 1 => b[i + 1] \in Utf8Second(b[i])
           /\ \A k \in 2..(Utf8Len(b[i]) - 1) : b[i + k] \in 128..191

\* Argon2id (argon2::Params::new, hash_password_into), as a function of the
\* password, the salt and the three cost parameters that gives 32 bytes.
ArgonParamsValid(m_cost, t_cost, p_cost) ==
  p_cost >= 1 /\ t_cost >= 1 /\ m_cost >= 8 * p_cost
hash_password_into(password, salt, m_cost, t_cost, p_cost) ==
  LET cost == 5 * m_cost + 7 * t_cost + 11 * p_cost + 13 * Len(password)
  IN [i \in 1..32 |->
        (7 * password[((i - 1) % Len(password)) + 1]
           + 3 * salt[((i - 1) % Len(salt)) + 1] + cost + i) % 256]

\* The AEAD (XChaCha20Poly1305 / ChaCha20Poly1305 encrypt and decrypt): a
\* key stream of the key and the nonce is xored on the text and a 16-byte
\* tag of the key, the nonce and the cipher text is appended; decrypt checks
\* the tag first.
TagLen == 16
KeyStream(key, nonce, i) ==
  (key[((i - 1) % Len(key)) + 1] + nonce[((i - 1) % Len(nonce)) + 1] + i) % 256
AeadTag(key, nonce, body) ==
  [j \in 1..TagLen |->
     (Sum(body) + 3 * Len(body) + key[j] + 3 * key[j + TagLen]
        + 5 * nonce[((j - 1) % Len(nonce)) + 1] + j) % 256]
cipher_encrypt(key, nonce, plaintext) ==
  LET body == [i \in 1..Len(plaintext) |->
                 Xor(plaintext[i], KeyStream(key, nonce, i))]
  IN body \o AeadTag(key, nonce, body)
\* Mutant: the tag is not compared.
MutCipherDecryptUnchecked(key, nonce, ciphertext) ==
  IF Len(ciphertext) < TagLen THEN Err("aead")
  ELSE
    LET n == Len(ciphertext) - TagLen
        body == SubSeq(ciphertext, 1, n)
    IN Ok([i \in 1..n |-> Xor(body[i], KeyStream(key, nonce, i))])

cipher_decrypt(key, nonce, ciphertext) ==
  IF Len(ciphertext) < TagLen THEN Err("aead")
  ELSE
    LET n == Len(ciphertext) - TagLen
        body == SubSeq(ciphertext, 1, n)
        tag == SubSeq(ciphertext, n + 1, Len(ciphertext))
    IN IF tag # AeadTag(key, nonce, body) THEN Err("aead")
       ELSE Ok([i \in 1..n |-> Xor(body[i], KeyStream(key, nonce, i))])

\* serde_json on the Payload struct (313-322, 369-378): an object of
\* unsigned numbers and of strings that need no escape.
RECURSIVE Decimal(_)
Decimal(n) ==
  IF n < 10 THEN <<48 + n>> ELSE Decimal(n \div 10) \o <<48 + (n % 10)>>
JsonString(text) == <<34>> \o text \o <<34>>
JsonKey(name) == JsonString(name) \o <<58>>

K_v == <<118>>  \* "v"
K_kdf == <<107, 100, 102>>  \* "kdf"
K_m_cost_kib == <<109, 95, 99, 111, 115, 116, 95, 107, 105, 98>>  \* "m_cost_kib"
K_t_cost == <<116, 95, 99, 111, 115, 116>>  \* "t_cost"
K_p_cost == <<112, 95, 99, 111, 115, 116>>  \* "p_cost"
K_salt_b64 == <<115, 97, 108, 116, 95, 98, 54, 52>>  \* "salt_b64"
K_nonce_b64 == <<110, 111, 110, 99, 101, 95, 98, 54, 52>>  \* "nonce_b64"
K_ct_b64 == <<99, 116, 95, 98, 54, 52>>  \* "ct_b64"
ARGON2ID == <<97, 114, 103, 111, 110, 50, 105, 100>>  \* "argon2id"

serde_json_to_string(payload) ==
  <<123>>
    \o JsonKey(K_v) \o Decimal(payload.v) \o <<44>>
    \o JsonKey(K_kdf) \o JsonString(payload.kdf) \o <<44>>
    \o JsonKey(K_m_cost_kib) \o Decimal(payload.m_cost_kib) \o <<44>>
    \o JsonKey(K_t_cost) \o Decimal(payload.t_cost) \o <<44>>
    \o JsonKey(K_p_cost) \o Decimal(payload.p_cost) \o <<44>>
    \o JsonKey(K_salt_b64) \o JsonString(payload.salt_b64) \o <<44>>
    \o JsonKey(K_nonce_b64) \o JsonString(payload.nonce_b64) \o <<44>>
    \o JsonKey(K_ct_b64) \o JsonString(payload.ct_b64)
    \o <<125>>

\* The first position of pat in text at or after from, 0 when there is none.
Find(text, pat, from) ==
  LET at == {i \in from..(Len(text) - Len(pat) + 1) :
               SubSeq(text, i, i + Len(pat) - 1) = pat}
  IN IF at = {} THEN 0 ELSE CHOOSE i \in at : \A j \in at : i <= j

\* Where the value of the member called name starts, 0 when it is missing.
MemberValue(text, name) ==
  LET at == Find(text, JsonKey(name), 1)
  IN IF at = 0 THEN 0 ELSE at + Len(JsonKey(name))

RECURSIVE DigitsValue(_)
DigitsValue(d) ==
  IF Len(d) = 0 THEN 0
  ELSE 10 * DigitsValue(SubSeq(d, 1, Len(d) - 1)) + (d[Len(d)] - 48)

\* The unsigned number that starts at position at: [ok, val]; numbers of
\* up to MaxDigits digits are read.
MaxDigits == 9
NumberAt(text, at) ==
  LET stop == {i \in at..Len(text) : text[i] \notin 48..57}
      end == IF stop = {} THEN Len(text) + 1
             ELSE CHOOSE i \in stop : \A j \in stop : i <= j
  IN IF at = 0 \/ end = at \/ end - at > MaxDigits THEN Err("json")
     ELSE Ok(DigitsValue(SubSeq(text, at, end - 1)))

\* The string that starts at position at: [ok, val].
StringAt(text, at) ==
  IF at = 0 \/ at > Len(text) \/ text[at] # 34 THEN Err("json")
  ELSE LET end == Find(text, <<34>>, at + 1)
       IN IF end = 0 \/ \E i \in (at + 1)..(end - 1) : text[i] = 92
            THEN Err("json")
            ELSE Ok(SubSeq(text, at + 1, end - 1))

serde_json_from_str(text) ==
  LET v == NumberAt(text, MemberValue(text, K_v))
      kdf == StringAt(text, MemberValue(text, K_kdf))
      m == NumberAt(text, MemberValue(text, K_m_cost_kib))
      t == NumberAt(text, MemberValue(text, K_t_cost))
      p == NumberAt(text, MemberValue(text, K_p_cost))
      salt == StringAt(text, MemberValue(text, K_salt_b64))
      nonce == StringAt(text, MemberValue(text, K_nonce_b64))
      ct == StringAt(text, MemberValue(text, K_ct_b64))
  IN IF /\ Len(text) >= 2
        /\ text[1] = 123
        /\ text[Len(text)] = 125
        /\ v.ok /\ kdf.ok /\ m.ok /\ t.ok /\ p.ok /\ salt.ok /\ nonce.ok /\ ct.ok
        /\ v.val < 256
       THEN Ok([v |-> v.val, kdf |-> kdf.val, m_cost_kib |-> m.val,
                t_cost |-> t.val, p_cost |-> p.val, salt_b64 |-> salt.val,
                nonce_b64 |-> nonce.val, ct_b64 |-> ct.val])
       ELSE Err("json")

ENCRYPTED_PREFIX == <<65, 71, 69, 78, 67, 49, 58>>  \* "AGENC1:"
MAX_PLAINTEXT_BYTES == 5 * 1024 * 1024
MIN_PASSWORD_BYTES == 8
MAX_PASSWORD_BYTES == 1024
SALT_BYTES == 16
NONCE_BYTES == 24

\* Mutant: the envelope names a time cost other than the one the key was
\* derived with.
MutPayloadOtherCost(salt, nonce, ciphertext) ==
  [v |-> 1, kdf |-> ARGON2ID, m_cost_kib |-> 32768, t_cost |-> 2, p_cost |-> 1,
   salt_b64 |-> BASE64_encode(salt), nonce_b64 |-> BASE64_encode(nonce),
   ct_b64 |-> BASE64_encode(ciphertext)]

\* The envelope encrypt writes (324-333).
Payload(salt, nonce, ciphertext) ==
  [v |-> 1, kdf |-> ARGON2ID, m_cost_kib |-> 32768, t_cost |-> 3, p_cost |-> 1,
   salt_b64 |-> BASE64_encode(salt), nonce_b64 |-> BASE64_encode(nonce),
   ct_b64 |-> BASE64_encode(ciphertext)]

\* encrypt_config_data (264-342); salt and nonce are what thread_rng gave.
encrypt_config_data(json_data, password, salt, nonce) ==
  IF Len(json_data) > MAX_PLAINTEXT_BYTES THEN Err("data_too_large")
  ELSE IF Len(password) = 0 THEN Err("password_empty")
  ELSE IF Len(password) < MIN_PASSWORD_BYTES THEN Err("password_too_short")
  ELSE IF Len(password) > MAX_PASSWORD_BYTES THEN Err("password_too_long")
  ELSE IF ~ArgonParamsValid(32768, 3, 1) THEN Err("params_init")
  ELSE
    LET key == hash_password_into(password, salt, 32768, 3, 1)
        ciphertext == cipher_encrypt(key, nonce, json_data)
        json == serde_json_to_string(Payload(salt, nonce, ciphertext))
    IN Ok(ENCRYPTED_PREFIX \o BASE64_encode(json))

\* Mutant: the password is applied one byte further on.
MutLegacyDecryptShifted(encrypted_data, password) ==
  LET decoded == BASE64_decode(encrypted_data) IN
  IF ~decoded.ok THEN Err("base64_failed")
  ELSE
    LET result == [i \in 1..Len(decoded.val) |->
                     Xor(decoded.val[i], password[(i % Len(password)) + 1])]
    IN IF Utf8Valid(result) THEN Ok(result) ELSE Err("corrupted")

\* The path of decrypt_config_data for texts without the prefix (428-440).
legacy_decrypt(encrypted_data, password) ==
  LET decoded == BASE64_decode(encrypted_data) IN
  IF ~decoded.ok THEN Err("base64_failed")
  ELSE
    LET result == [i \in 1..Len(decoded.val) |->
                     Xor(decoded.val[i],
                         password[((i - 1) % Len(password)) + 1])]
    IN IF Utf8Valid(result) THEN Ok(result) ELSE Err("corrupted")

\* The path for texts with the prefix (367-426).
envelope_decrypt(rest, password) ==
  LET json_bytes == BASE64_decode(rest) IN
  IF ~json_bytes.ok \/ ~Utf8Valid(json_bytes.val) THEN Err("invalid_format")
  ELSE
    LET payload == serde_json_from_str(json_bytes.val) IN
    IF ~payload.ok THEN Err("invalid_format")
    ELSE IF payload.val.v # 1 \/ payload.val.kdf # ARGON2ID
      THEN Err("unsupported_version")
    ELSE
      LET salt == BASE64_decode(payload.val.salt_b64)
          nonce == BASE64_decode(payload.val.nonce_b64)
          ciphertext == BASE64_decode(payload.val.ct_b64)
      IN
      IF ~salt.ok \/ ~nonce.ok \/ ~ciphertext.ok THEN Err("invalid_format")
      ELSE IF Len(salt.val) # SALT_BYTES \/ Len(nonce.val) # NONCE_BYTES
        THEN Err("invalid_format")
      ELSE IF ~ArgonParamsValid(payload.val.m_cost_kib, payload.val.t_cost,
                                payload.val.p_cost)
        THEN Err("invalid_params")
      ELSE
        LET key == hash_password_into(password, salt.val,
                     payload.val.m_cost_kib, payload.val.t_cost,
                     payload.val.p_cost)
            plaintext == cipher_decrypt(key, nonce.val, ciphertext.val)
        IN IF ~plaintext.ok THEN Err("wrong_password_or_corrupted")
           ELSE IF ~Utf8Valid(plaintext.val) THEN Err("corrupted")
           ELSE Ok(plaintext.val)

\* decrypt_config_data (346-442)
decrypt_config_data(encrypted_data, password) ==
  IF Len(password) = 0 THEN Err("password_empty")
  ELSE IF Len(password) > MAX_PASSWORD_BYTES THEN Err("password_too_long")
  ELSE IF /\ Len(encrypted_data) >= Len(ENCRYPTED_PREFIX)
          /\ SubSeq(encrypted_data, 1, Len(ENCRYPTED_PREFIX)) = ENCRYPTED_PREFIX
    THEN envelope_decrypt(
           SubSeq(encrypted_data, Len(ENCRYPTED_PREFIX) + 1,
                  Len(encrypted_data)), password)
    ELSE legacy_decrypt(encrypted_data, password)

(***************************************************************************)
(* security/crypto.rs, the functions of the same names in the security    *)
(* module: version byte, salt, nonce and cipher text in one base64 text.   *)
(***************************************************************************)
CRYPTO_VERSION == 1
SALT_LEN == 16
NONCE_LEN == 12

\* derive_key (security/crypto.rs 115-134)
derive_key(password, salt) == hash_password_into(password, salt, 65536, 3, 4)

\* encrypt_config_data (security/crypto.rs 29-65)
crypto_encrypt_config_data(json_data, password, salt_bytes, nonce_bytes) ==
  IF Len(password) = 0 THEN Err("password_empty")
  ELSE
    LET key == derive_key(password, salt_bytes)
        ciphertext == cipher_encrypt(key, nonce_bytes, json_data)
    IN Ok(BASE64_encode(<<CRYPTO_VERSION>> \o salt_bytes \o nonce_bytes
                          \o ciphertext))

\* decrypt_config_data (security/crypto.rs 68-112)
crypto_decrypt_config_data(encrypted_data, password) ==
  IF Len(password) = 0 THEN Err("password_empty")
  ELSE
    LET data == BASE64_decode(encrypted_data) IN
    IF ~data.ok THEN Err("base64_failed")
    ELSE IF Len(data.val) < 1 + SALT_LEN + NONCE_LEN + 16
      THEN Err("invalid_format")
    ELSE IF data.val[1] # CRYPTO_VERSION THEN Err("unsupported_version")
    ELSE
      LET salt == SubSeq(data.val, 2, 1 + SALT_LEN)
          nonce_bytes == SubSeq(data.val, 2 + SALT_LEN, 1 + SALT_LEN + NONCE_LEN)
          ciphertext == SubSeq(data.val, 2 + SALT_LEN + NONCE_LEN, Len(data.val))
          key == derive_key(password, salt)
          plaintext == cipher_decrypt(key, nonce_bytes, ciphertext)
      IN IF ~plaintext.ok THEN Err("wrong_password_or_corrupted")
         ELSE IF ~Utf8Valid(plaintext.val) THEN Err("not_utf8")
         ELSE Ok(plaintext.val)

(***************************************************************************)
(* services/crypto.rs, the functions the routes /api/encrypt_config_data   *)
(* and /api/decrypt_config_data call (server/mod.rs 364-378): the password *)
(* is xored cyclically on the bytes and the result is base64 text.         *)
(***************************************************************************)
\* encrypt_config_data (services/crypto.rs 4-22)
services_encrypt_config_data(json_data, password) ==
  IF Len(password) = 0 THEN Err("password_empty")
  ELSE
    LET result == [i \in 1..Len(json_data) |->
                     Xor(json_data[i],
                         password[((i - 1) % Len(password)) + 1])]
    IN Ok(BASE64_encode(result))

\* decrypt_config_data (services/crypto.rs 25-49)
services_decrypt_config_data(encrypted_data, password) ==
  IF Len(password) = 0 THEN Err("password_empty")
  ELSE
    LET decoded == BASE64_decode(encrypted_data) IN
    IF ~decoded.ok THEN Err("base64_failed")
    ELSE
      LET result == [i \in 1..Len(decoded.val) |->
                       Xor(decoded.val[i],
                           password[((i - 1) % Len(password)) + 1])]
      IN IF Utf8Valid(result) THEN Ok(result) ELSE Err("corrupted")

(***************************************************************************)
(* What the call leaves in memory when it returns: the buffer of the       *)
(* password ("live" while it holds the bytes, "zeroed" after zeroize,      *)
(* "empty" for a password of no bytes) and the derived key ("none" when no *)
(* key was derived).                                                       *)
(***************************************************************************)
Buffer(password, zeroized) ==
  IF Len(password) = 0 THEN "empty" ELSE IF zeroized THEN "zeroed" ELSE "live"
HasPrefix(encrypted_data) ==
  /\ Len(encrypted_data) >= Len(ENCRYPTED_PREFIX)
  /\ SubSeq(encrypted_data, 1, Len(ENCRYPTED_PREFIX)) = ENCRYPTED_PREFIX

\* encrypt_config_data (264-342): password_bytes.zeroize() at 304 and
\* key.zeroize() at 310; every earlier return drops the buffers as they are.
encrypt_memory(password, result) ==
  IF result.ok THEN [password_bytes |-> Buffer(password, TRUE), key |-> "zeroed"]
  ELSE [password_bytes |-> Buffer(password, FALSE), key |-> "none"]

\* decrypt_config_data (346-442): password_bytes.zeroize() at 415 and 437,
\* key.zeroize() at 421, after the `?` of cipher.decrypt (418-420).
decrypt_memory(encrypted_data, password, result) ==
  IF HasPrefix(encrypted_data) /\ Len(password) \in 1..MAX_PASSWORD_BYTES
    THEN IF result.ok \/ result.err = "corrupted"
           THEN [password_bytes |-> "zeroed", key |-> "zeroed"]
         ELSE IF result.err = "wrong_password_or_corrupted"
           THEN [password_bytes |-> "zeroed", key |-> "live"]
         ELSE [password_bytes |-> "live", key |-> "none"]
  ELSE IF result.ok \/ result.err = "corrupted"
    THEN [password_bytes |-> "zeroed", key |-> "none"]
  ELSE [password_bytes |-> Buffer(password, FALSE), key |-> "none"]

\* security/crypto.rs: the password String is never zeroized; key.zeroize()
\* at 55 and at 109, after the `?` of cipher.decrypt (104-106).
crypto_encrypt_memory(password, result) ==
  [password_bytes |-> Buffer(password, FALSE),
   key |-> IF result.ok THEN "zeroed" ELSE "none"]
crypto_decrypt_memory(password, result) ==
  [password_bytes |-> Buffer(password, FALSE),
   key |-> IF result.ok \/ result.err = "not_utf8" THEN "zeroed"
           ELSE IF result.err = "wrong_password_or_corrupted" THEN "live"
           ELSE "none"]

\* services/crypto.rs: no key, and nothing is zeroized.
services_memory(password) ==
  [password_bytes |-> Buffer(password, FALSE), key |-> "none"]

NoMemory == [password_bytes |-> "empty", key |-> "none"]

NoCrypto ==
  [pc |-> "none", impl |-> "none", json_data |-> <<>>, password |-> <<>>,
   salt |-> <<>>, nonce |-> <<>>, encrypted |-> Err(""),
   kind |-> "none", encrypted_data |-> <<>>, dpassword |-> <<>>,
   decrypted |-> Err(""), encrypt_left |-> NoMemory, decrypt_left |-> NoMemory]

(***************************************************************************)
(* State.                                                                  *)
(***************************************************************************)
VARIABLES
  os,           \* std::env::consts::OS
  db,           \* state.vscdb (primary) and state.vscdb.backup (sibling)
  files,        \* the account backup files, by account name
  hostRunning,  \* whether an Antigravity process exists
  session,      \* each WsSession: its actor state and its heartbeat fields
  clients,      \* CONNECTION_MANAGER.clients
  inbox,        \* the messages do_send handed to each session
  rpcIds,       \* request ids call_all has drawn so far
  faults,       \* faults injected so far
  calls,        \* switch() calls issued so far
  sw,           \* the switch() calls in flight, by slot
  api,          \* the last direct call of clear_all_data / restore: its result,
                \* the store it started on, the faults met on each copy
  lock,         \* the holders of the RwLock around CONNECTION_MANAGER.clients
  task,         \* where each thread that uses the registry stands in its call
  crypto,       \* an export: the data, the password, what the random
                \* generator gave, the encrypted text and what decrypt returned
  repo,         \* the directory antigravity-accounts, the save calls and the
                \* listing in flight
  cmd           \* the command on accounts in flight: the step it is at, what
                \* it was called with, what it touched and what it returned

vars ==
  <<os, db, files, hostRunning, session, clients, inbox, rpcIds, faults, calls,
    sw, api, lock, task, crypto, repo, cmd>>

OSes == {"windows", "linux", "other"}
Accounts == {"a@x", "b@x", "c@x"}
ClientIds == 1..MaxClients
Reqs == 1..MaxReqs

\* a@x: a backup carrying every field restore reads; b@x: a backup as
\* backup_current writes it; c@x: no backup file.
InitFiles ==
  [a \in Accounts |->
     IF a = "a@x"
       THEN JsonFile([f \in Fields |->
              IF f \in RestoreFields THEN "a@x." \o f ELSE NoField])
     ELSE IF a = "b@x"
       THEN JsonFile([f \in Fields |->
              IF f \in BackupFields THEN "b@x." \o f ELSE NoField])
     ELSE MissingFile]

LiveRows(present) == [k \in Keys |-> IF k \in present THEN Live ELSE Absent]

NoResult == [ok |-> FALSE, kind |-> "none", n |-> 0]
IdleReq ==
  [pc |-> "idle", account_name |-> "", has_extension |-> FALSE,
   is_running |-> FALSE, client_count |-> 0, steps |-> <<>>,
   rpc_id |-> 0, notified |-> 0, kill |-> "none", result |-> NoResult,
   chained |-> FALSE, dbAtCall |-> [primary |-> NoFile, sibling |-> NoFile],
   stmt |-> 0]

NoApi == [op |-> "none", account_name |-> "", result |-> NoResult,
          before |-> [primary |-> NoFile, sibling |-> NoFile],
          fp |-> [open |-> FALSE], fs |-> [open |-> FALSE]]

\* The stores the orchestrator is started on: a signed-in store with its
\* sibling copy, and a store that never had a marker row.
OrchDbs ==
  { [primary |-> Table(LiveRows(Keys)), sibling |-> Table(LiveRows(Keys))],
    [primary |-> Table(LiveRows(Keys \ {MarkerKey, OnboardingKey})),
     sibling |-> NoFile] }

\* Every store the adapter may be handed: any subset of the rows, no file
\* or a file without ItemTable; the sibling missing, a copy, or empty.
AllDbs ==
  LET primaries == {NoFile, EmptyDb} \cup {Table(LiveRows(P)) : P \in SUBSET Keys}
  IN { [primary |-> p, sibling |-> s] :
         p \in primaries, s \in {NoFile, Table(NoRows), Table(LiveRows(Keys))} }

NoTasks ==
  [ses |-> [c \in ClientIds |-> IdleTask], req |-> [k \in Reqs |-> IdleTask]]

\* A file of the directory antigravity-accounts: its text as a sequence of
\* tokens, whether it can be read, whether it is longer than the limit of
\* an account file, and its modification time.
NoEntry ==
  [exists |-> FALSE, readable |-> TRUE, big |-> FALSE, text |-> <<>>,
   mtime |-> 0]
NoContent == [jetski |-> "", status |-> NoField]
Savers == 1..MaxSavers
IdleSave ==
  [pc |-> "idle", via |-> "none", email |-> "", content |-> NoContent,
   old |-> NoEntry, written |-> 0, tmp |-> <<>>, tmp_mtime |-> 0,
   overlap |-> FALSE, result |-> "none"]
NotSeen == [looked |-> FALSE, exists |-> FALSE, text |-> <<>>]
NoListing == [ok |-> FALSE, err |-> "none", accounts |-> <<>>]
IdleList ==
  [pc |-> "idle", via |-> "none", todo |-> {},
   seen |-> [a \in Accounts |-> NotSeen], accounts |-> {},
   result |-> NoListing]
\* No command on accounts is in flight.
NoCmd == [op |-> "none", pc |-> "idle"]
NoRepo ==
  [dir |-> [a \in Accounts |-> NoEntry], save |-> [s \in Savers |-> IdleSave],
   list |-> IdleList, clock |-> 0, saves |-> 0, stray |-> {}]

InitCommon ==
  /\ files = InitFiles
  /\ session = [c \in ClientIds |-> NewSession]
  /\ clients = {}
  /\ inbox = [c \in ClientIds |-> {}]
  /\ rpcIds = {}
  /\ faults = 0
  /\ calls = 0
  /\ sw = [r \in Reqs |-> IdleReq]
  /\ api = NoApi
  /\ lock = FreeLock
  /\ task = NoTasks
  /\ crypto = NoCrypto
  /\ repo = NoRepo
  /\ cmd = NoCmd

Init ==
  /\ InitCommon
  /\ os \in OSes
  /\ db \in OrchDbs
  /\ hostRunning = FALSE

(***************************************************************************)
(* The environment: sessions come and go, the host is started and exits.   *)
(***************************************************************************)
\* WsSession::started (websocket.rs 339-345)
WsStarted(c) ==
  /\ session[c].state = "new"
  /\ session' = [session EXCEPT ![c].state = "started"]
  /\ clients' = register(clients, c)
  /\ UNCHANGED <<cmd, repo, crypto, lock, task, os, db, files, hostRunning, inbox, rpcIds, faults, calls, sw, api>>

\* WsSession::stopped (websocket.rs 348-352) when the stream of the
\* connection ends; the actor's mailbox goes with it.
WsStopped(c) ==
  /\ session[c].state = "started"
  /\ session' = [session EXCEPT ![c] = StoppedSession("stream_end")]
  /\ clients' = unregister(clients, c)
  /\ inbox' = [inbox EXCEPT ![c] = {}]
  /\ UNCHANGED <<cmd, repo, crypto, lock, task, os, db, files, hostRunning, rpcIds, faults, calls, sw, api>>

HostStarts ==
  /\ ~hostRunning
  /\ hostRunning' = TRUE
  /\ UNCHANGED <<cmd, repo, crypto, lock, task, os, db, files, session, clients, inbox, rpcIds, faults, calls, sw, api>>

HostExits ==
  /\ hostRunning
  /\ hostRunning' = FALSE
  /\ UNCHANGED <<cmd, repo, crypto, lock, task, os, db, files, session, clients, inbox, rpcIds, faults, calls, sw, api>>

(***************************************************************************)
(* switch (services/account.rs 308-409).                                   *)
(***************************************************************************)
\* Mutant: a running host without a connection is killed and restarted.
MutScenarioBlockedRestarts(has_extension, is_running) ==
  IF has_extension THEN "LiveReload" ELSE "ColdRestart"

\* Mutant: a running host blocks the switch although a connection exists.
MutScenarioRunningBlocks(has_extension, is_running) ==
  IF is_running THEN
    (IF has_extension THEN "BlockedAwaitingExtension" ELSE "BlockedAwaitingExtension")
  ELSE IF has_extension THEN "LiveReload"
  ELSE "ColdRestart"

\* The match of lines 320-357 on (has_extension, is_running).
Scenario(has_extension, is_running) ==
  IF has_extension THEN "LiveReload"
  ELSE IF is_running THEN "BlockedAwaitingExtension"
  ELSE "ColdRestart"

\* Mutant: the snapshot is restored before the store is reset.
MutNextStepRestoreFirst(scenario, pc) ==
  IF scenario = "LiveReload"
    THEN CASE pc = "begin" -> "count"
           [] pc = "count" -> "restore"
           [] pc = "restore" -> "clear"
           [] pc = "clear" -> "settle"
           [] pc = "settle" -> "notify"
           [] OTHER -> "done"
  ELSE IF scenario = "ColdRestart"
    THEN CASE pc = "begin" -> "kill"
           [] pc = "kill" -> "wait"
           [] pc = "wait" -> "restore"
           [] pc = "restore" -> "clear"
           [] pc = "clear" -> "settle"
           [] pc = "settle" -> "launch"
           [] OTHER -> "done"
  ELSE "done"

\* The statement order of each arm; "done" ends the call.
NextStep(scenario, pc) ==
  IF scenario = "LiveReload"
    THEN CASE pc = "begin" -> "count"
           [] pc = "count" -> "clear"
           [] pc = "clear" -> "restore"
           [] pc = "restore" -> "settle"
           [] pc = "settle" -> "notify"
           [] OTHER -> "done"
  ELSE IF scenario = "ColdRestart"
    THEN CASE pc = "begin" -> "kill"
           [] pc = "kill" -> "wait"
           [] pc = "wait" -> "clear"
           [] pc = "clear" -> "restore"
           [] pc = "restore" -> "settle"
           [] pc = "settle" -> "launch"
           [] OTHER -> "done"
  ELSE "done"

ScenarioOf(q) == Scenario(q.has_extension, q.is_running)
Advance(q) ==
  [q EXCEPT !.pc = NextStep(ScenarioOf(q), q.pc), !.steps = Append(@, q.pc)]
\* Mutant: the error of a failing step is noted and the sequence goes on.
MutFailGoesOn(q, kind) ==
  [q EXCEPT !.pc = NextStep(ScenarioOf(q), q.pc), !.steps = Append(@, q.pc),
            !.result = [ok |-> FALSE, kind |-> kind, n |-> 0]]

Fail(q, kind) ==
  [q EXCEPT !.pc = "done", !.steps = Append(@, q.pc),
            !.result = [ok |-> FALSE, kind |-> kind, n |-> 0]]

\* The stand-in of the second literal the source looks for (a Chinese
\* "not found").
NotFoundZh == "<not found, zh>"
\* Lines 359-378: an Ok result goes on; an Err goes on only when it says
\* "not found".
KillTolerated(res) ==
  res.ok \/ Contains(res.text, "not found") \/ Contains(res.text, NotFoundZh)

\* Lines 308-320, 351-354: read the two conditions and pick the arm.  With
\* track, the call also notes the store it started on and whether it repeats
\* the call before it (same target, same conditions, that call succeeded).
Begin(r, a, track) ==
  /\ sw[r].pc \in {"idle", "done"}
  /\ calls < MaxCalls
  /\ calls' = calls + 1
  /\ LET has_extension == has_connections(clients)
         is_running == hostRunning
         scenario == Scenario(has_extension, is_running)
         q == [IdleReq EXCEPT
                 !.account_name = a,
                 !.has_extension = has_extension,
                 !.is_running = is_running,
                 !.chained = /\ track
                             /\ sw[r].pc = "done"
                             /\ sw[r].result.ok
                             /\ sw[r].account_name = a
                             /\ sw[r].has_extension = has_extension
                             /\ sw[r].is_running = is_running,
                 !.dbAtCall = IF track THEN db ELSE @,
                 !.pc = NextStep(scenario, "begin")]
     IN sw' = [sw EXCEPT ![r] =
                 IF scenario = "BlockedAwaitingExtension"
                   THEN [q EXCEPT !.result =
                           [ok |-> FALSE, kind |-> "need_extension", n |-> 0]]
                   ELSE q]
  /\ UNCHANGED <<cmd, repo, crypto, lock, task, os, db, files, hostRunning, session, clients, inbox, rpcIds,
                 faults, api>>

SwitchBegin(r, a) == Begin(r, a, FALSE)

\* Line 323
SwitchCount(r) ==
  /\ sw[r].pc = "count"
  /\ sw' = [sw EXCEPT ![r] =
              [Advance(sw[r]) EXCEPT !.client_count = client_count(clients),
                                     !.steps = sw[r].steps]]
  /\ UNCHANGED <<cmd, repo, crypto, lock, task, os, db, files, hostRunning, session, clients, inbox, rpcIds,
                 faults, calls, api>>

\* Lines 359-378
SwitchKill(r) ==
  /\ sw[r].pc = "kill"
  /\ \E outcome \in KillOutcomes :
       /\ outcome \in {"killed", "kill_denied"} => hostRunning
       /\ outcome = "no_match" => ~hostRunning
       /\ KillFaulty(outcome) => faults < MaxFaults
       /\ LET res == kill_antigravity_processes(os, outcome) IN
          /\ sw' = [sw EXCEPT ![r] =
                      [(IF KillTolerated(res)
                          THEN Advance(sw[r])
                          ELSE Fail(sw[r], "kill_error"))
                       EXCEPT !.kill = outcome]]
          /\ hostRunning' = (hostRunning /\ ~KillStops(os, outcome))
          /\ faults' = faults + (IF KillFaulty(outcome) THEN 1 ELSE 0)
  /\ UNCHANGED <<cmd, repo, crypto, lock, task, os, db, files, session, clients, inbox, rpcIds, calls, api>>

\* Line 381
SwitchWait(r) ==
  /\ sw[r].pc = "wait"
  /\ sw' = [sw EXCEPT ![r] = Advance(sw[r])]
  /\ UNCHANGED <<cmd, repo, crypto, lock, task, os, db, files, hostRunning, session, clients, inbox, rpcIds,
                 faults, calls, api>>

\* Lines 327 and 386: clear_all_data().await?
SwitchClear(r) ==
  /\ sw[r].pc = "clear"
  /\ \E fp \in ClearFaults, fs \in ClearFaults :
       /\ faults + ClearCost(fp) + ClearCost(fs) <= MaxFaults
       /\ ~db.sibling.exists => fs = NoClearFault
       /\ LET res == clear_all_antigravity_data(db, fp, fs) IN
          /\ db' = res.db
          /\ sw' = [sw EXCEPT ![r] =
                      IF res.ok THEN Advance(sw[r]) ELSE Fail(sw[r], res.kind)]
          /\ faults' = faults + ClearCost(fp) + ClearCost(fs)
  /\ UNCHANGED <<cmd, repo, crypto, lock, task, os, files, hostRunning, session, clients, inbox, rpcIds, calls,
                 api>>

\* Lines 331 and 390: restore(account_name).await?
SwitchRestore(r) ==
  /\ sw[r].pc = "restore"
  /\ \E fp \in RestoreFaults, fs \in RestoreFaults :
       /\ faults + RestoreCost(fp) + RestoreCost(fs) <= MaxFaults
       /\ ~db.sibling.exists => fs = NoRestoreFault
       /\ LET res == restore_all_antigravity_data(
                       db, files[sw[r].account_name], fp, fs) IN
          /\ db' = res.db
          /\ sw' = [sw EXCEPT ![r] =
                      IF res.ok THEN Advance(sw[r]) ELSE Fail(sw[r], res.kind)]
          /\ faults' = faults + RestoreCost(fp) + RestoreCost(fs)
  /\ UNCHANGED <<cmd, repo, crypto, lock, task, os, files, hostRunning, session, clients, inbox, rpcIds, calls,
                 api>>

\* Lines 335 and 394
SwitchSettle(r) ==
  /\ sw[r].pc = "settle"
  /\ sw' = [sw EXCEPT ![r] = Advance(sw[r])]
  /\ UNCHANGED <<cmd, repo, crypto, lock, task, os, db, files, hostRunning, session, clients, inbox, rpcIds,
                 faults, calls, api>>

\* ConnectionManager::call_all (websocket.rs 258-265): Uuid::new_v4 is an id
\* no earlier request carries.
MutCallAllReusesId(cs, boxes, ids, method) ==
  LET id == 1
      request == [type |-> "rpc_request", id |-> id, method |-> method]
  IN [id |-> id, inbox |-> broadcast(cs, boxes, request)]

call_all(cs, boxes, ids, method) ==
  LET id == Cardinality(ids) + 1
      request == [type |-> "rpc_request", id |-> id, method |-> method]
  IN [id |-> id, inbox |-> broadcast(cs, boxes, request)]

\* Lines 338-347
SwitchNotify(r) ==
  /\ sw[r].pc = "notify"
  /\ LET sent == call_all(clients, inbox, rpcIds, "reloadWindow") IN
     /\ inbox' = sent.inbox
     /\ rpcIds' = rpcIds \cup {sent.id}
     /\ sw' = [sw EXCEPT ![r] =
                 [Advance(sw[r]) EXCEPT
                    !.rpc_id = sent.id,
                    !.notified = client_count(clients),
                    !.result = [ok |-> TRUE, kind |-> "reloading",
                                n |-> sw[r].client_count]]]
  /\ UNCHANGED <<cmd, repo, crypto, lock, task, os, db, files, hostRunning, session, clients, faults, calls, api>>

\* Lines 397-406
SwitchLaunch(r) ==
  /\ sw[r].pc = "launch"
  /\ \E launched \in BOOLEAN :
       LET res == start_antigravity(os, launched) IN
       /\ hostRunning' = (hostRunning \/ res.ok)
       /\ sw' = [sw EXCEPT ![r] =
                   [Advance(sw[r]) EXCEPT
                      !.result = IF res.ok
                        THEN [ok |-> TRUE, kind |-> "started", n |-> 0]
                        ELSE [ok |-> FALSE, kind |-> "restored_launch_failed",
                              n |-> 0]]]
  /\ UNCHANGED <<cmd, repo, crypto, lock, task, os, db, files, session, clients, inbox, rpcIds, faults, calls,
                 api>>

Next ==
  \/ \E c \in ClientIds : WsStarted(c)
  \/ \E c \in ClientIds : WsStopped(c)
  \/ HostStarts
  \/ HostExits
  \/ \E a \in Accounts : SwitchBegin(1, a)
  \/ \E r \in Reqs : SwitchCount(r)
  \/ \E r \in Reqs : SwitchKill(r)
  \/ \E r \in Reqs : SwitchWait(r)
  \/ \E r \in Reqs : SwitchClear(r)
  \/ \E r \in Reqs : SwitchRestore(r)
  \/ \E r \in Reqs : SwitchSettle(r)
  \/ \E r \in Reqs : SwitchNotify(r)
  \/ \E r \in Reqs : SwitchLaunch(r)

Spec == Init /\ [][Next]_vars

(***************************************************************************)
(* The adapter called on its own: clear_all_data (services/account.rs      *)
(* 286-288, route /api/clear_all_antigravity_data) and restore (291-300,   *)
(* route /api/restore_antigravity_account).                                *)
(***************************************************************************)
ClearAllData ==
  \E fp \in ClearFaults, fs \in ClearFaults :
    /\ faults + ClearCost(fp) + ClearCost(fs) <= MaxFaults
    /\ ~db.sibling.exists => fs = NoClearFault
    /\ LET res == clear_all_antigravity_data(db, fp, fs) IN
       /\ db' = res.db
       /\ api' = [op |-> "clear", account_name |-> "",
                  result |-> [ok |-> res.ok, kind |-> res.kind, n |-> res.n],
                  before |-> db, fp |-> fp, fs |-> fs]
       /\ faults' = faults + ClearCost(fp) + ClearCost(fs)
    /\ UNCHANGED <<cmd, repo, crypto, lock, task, os, files, hostRunning, session, clients, inbox, rpcIds,
                   calls, sw>>

RestoreAccount(a) ==
  \E fp \in RestoreFaults, fs \in RestoreFaults :
    /\ faults + RestoreCost(fp) + RestoreCost(fs) <= MaxFaults
    /\ ~db.sibling.exists => fs = NoRestoreFault
    /\ LET res == restore_all_antigravity_data(db, files[a], fp, fs) IN
       /\ db' = res.db
       /\ api' = [op |-> "restore", account_name |-> a,
                  result |-> [ok |-> res.ok, kind |-> res.kind, n |-> res.n],
                  before |-> db, fp |-> fp, fs |-> fs]
       /\ faults' = faults + RestoreCost(fp) + RestoreCost(fs)
    /\ UNCHANGED <<cmd, repo, crypto, lock, task, os, files, hostRunning, session, clients, inbox, rpcIds,
                   calls, sw>>

InitStore ==
  /\ InitCommon
  /\ os = "linux"
  /\ db \in AllDbs
  /\ hostRunning = FALSE

NextStore ==
  \/ ClearAllData
  \/ \E a \in Accounts : RestoreAccount(a)

SpecStore == InitStore /\ [][NextStore]_vars

(***************************************************************************)
(* The store adapter on every shape of snapshot: each field restore reads  *)
(* is missing, a JSON value that is no string, or a string; the store is   *)
(* signed in, as the reset leaves it, without ItemTable, or missing.       *)
(***************************************************************************)
FieldShapes == {NoField, NonString, "s@x"}
AllSnapshots ==
  {JsonFile([f \in Fields |->
      IF f \notin RestoreFields THEN NoField
      ELSE IF j[f] = "s@x" THEN "s@x." \o f ELSE j[f]]) :
     j \in [RestoreFields -> FieldShapes]}

ResetRows ==
  [k \in Keys |->
     IF k = MarkerKey THEN RESET_MARKER_VALUE
     ELSE IF k \in {AuthKey, ProfileKey, OnboardingKey} THEN Absent
     ELSE Live]

SnapDbs ==
  { [primary |-> p, sibling |-> s] :
      p \in {Table(LiveRows(Keys)), Table(ResetRows), EmptyDb, NoFile},
      s \in {NoFile, Table(LiveRows(Keys))} }

\* The account whose snapshot is drawn.
SnapAccount == "a@x"

InitSnap ==
  /\ \E snap \in AllSnapshots : files = [InitFiles EXCEPT ![SnapAccount] = snap]
  /\ session = [c \in ClientIds |-> NewSession]
  /\ clients = {}
  /\ inbox = [c \in ClientIds |-> {}]
  /\ rpcIds = {}
  /\ faults = 0
  /\ calls = 0
  /\ sw = [r \in Reqs |-> IdleReq]
  /\ api = NoApi
  /\ lock = FreeLock
  /\ task = NoTasks
  /\ crypto = NoCrypto
  /\ repo = NoRepo
  /\ cmd = NoCmd
  /\ os = "linux"
  /\ db \in SnapDbs
  /\ hostRunning = FALSE

NextSnap ==
  \/ ClearAllData
  \/ RestoreAccount(SnapAccount)

SpecSnap == InitSnap /\ [][NextSnap]_vars

(***************************************************************************)
(* The orchestrator with the history of the previous call noted at each    *)
(* call (the caller issues one switch at a time).                          *)
(***************************************************************************)
SwitchBeginAgain(a) == Begin(1, a, TRUE)

NextSerial ==
  \/ \E c \in ClientIds : WsStarted(c)
  \/ \E c \in ClientIds : WsStopped(c)
  \/ HostStarts
  \/ HostExits
  \/ \E a \in Accounts : SwitchBeginAgain(a)
  \/ \E r \in Reqs : SwitchCount(r)
  \/ \E r \in Reqs : SwitchKill(r)
  \/ \E r \in Reqs : SwitchWait(r)
  \/ \E r \in Reqs : SwitchClear(r)
  \/ \E r \in Reqs : SwitchRestore(r)
  \/ \E r \in Reqs : SwitchSettle(r)
  \/ \E r \in Reqs : SwitchNotify(r)
  \/ \E r \in Reqs : SwitchLaunch(r)

SpecSerial == Init /\ [][NextSerial]_vars

(***************************************************************************)
(* The live connections on their own: time passes, the interval timer of   *)
(* each session fires when due, frames arrive, requests are broadcast.     *)
(***************************************************************************)
\* Time passes until the next interval timer is due; a timer that is due
\* fires before more time passes.
Tick ==
  LET running == {c \in ClientIds : session[c].state = "started"} IN
  /\ running # {}
  /\ \A c \in running : session[c].due > 0
  /\ LET d == CHOOSE t \in 1..HEARTBEAT_INTERVAL :
                /\ \A c \in running : t <= session[c].due
                /\ \E c \in running : t = session[c].due
     IN session' = [c \in ClientIds |->
                      IF c \in running
                        THEN [session[c] EXCEPT
                                !.age = @ + d, !.quiet = @ + d, !.due = @ - d,
                                !.last = "none",
                                !.silent =
                                  @ \/ session[c].quiet + d > CLIENT_TIMEOUT]
                        ELSE session[c]]
  /\ UNCHANGED <<cmd, repo, crypto, lock, task, os, db, files, hostRunning, clients, inbox, rpcIds, faults,
                 calls, sw, api>>

\* WsSession::hb (websocket.rs 323-332)
Heartbeat(c) ==
  /\ session[c].state = "started"
  /\ session[c].due = 0
  /\ session' = [session EXCEPT ![c] = hb(session[c])]
  /\ UNCHANGED <<cmd, repo, crypto, lock, task, os, db, files, hostRunning, clients, inbox, rpcIds, faults,
                 calls, sw, api>>

\* StreamHandler::handle (websocket.rs 356-404)
Frame(c, kind) ==
  /\ session[c].state = "started"
  /\ session' = [session EXCEPT ![c] = handle(session[c], kind)]
  /\ UNCHANGED <<cmd, repo, crypto, lock, task, os, db, files, hostRunning, clients, inbox, rpcIds, faults,
                 calls, sw, api>>

\* WsSession::stopped (websocket.rs 348-352) after ctx.stop().
WsStopping(c) ==
  /\ session[c].state = "stopping"
  /\ session' = [session EXCEPT ![c] = StoppedSession(session[c].why)]
  /\ clients' = unregister(clients, c)
  /\ inbox' = [inbox EXCEPT ![c] = {}]
  /\ UNCHANGED <<cmd, repo, crypto, lock, task, os, db, files, hostRunning, rpcIds, faults, calls, sw, api>>

\* call_all_extensions (websocket.rs 488-495)
CallAllExtensions ==
  /\ calls < MaxCalls
  /\ calls' = calls + 1
  /\ LET sent == call_all(clients, inbox, rpcIds, "reloadWindow") IN
     /\ inbox' = sent.inbox
     /\ rpcIds' = rpcIds \cup {sent.id}
  /\ UNCHANGED <<cmd, repo, crypto, lock, task, os, db, files, hostRunning, session, clients, faults, sw, api>>

InitWs ==
  /\ InitCommon
  /\ os = "linux"
  /\ db = [primary |-> NoFile, sibling |-> NoFile]
  /\ hostRunning = FALSE

NextWs ==
  \/ \E c \in ClientIds : WsStarted(c)
  \/ \E c \in ClientIds : WsStopped(c)
  \/ Tick
  \/ \E c \in ClientIds : Heartbeat(c)
  \/ \E c \in ClientIds : \E kind \in FrameKinds : Frame(c, kind)
  \/ \E c \in ClientIds : WsStopping(c)

\* Time passes, due timers fire and a stopping actor runs stopped().
SpecWs ==
  /\ InitWs
  /\ [][NextWs]_vars
  /\ WF_vars(Tick)
  /\ \A c \in ClientIds : WF_vars(Heartbeat(c)) /\ WF_vars(WsStopping(c))

(***************************************************************************)
(* The registry with its broadcasts: sessions come and go, clients send    *)
(* frames (replies among them) and call_all_extensions is called, without  *)
(* the passing of time.                                                    *)
(***************************************************************************)
InitRpc == InitWs

NextRpc ==
  \/ \E c \in ClientIds : WsStarted(c)
  \/ \E c \in ClientIds : WsStopped(c)
  \/ \E c \in ClientIds : \E kind \in FrameKinds : Frame(c, kind)
  \/ \E c \in ClientIds : WsStopping(c)
  \/ CallAllExtensions

SpecRpc == InitRpc /\ [][NextRpc]_vars

(***************************************************************************)
(* The registry under its lock.  Sessions run on the workers' threads and  *)
(* the public API is called from request handlers, so register,            *)
(* unregister, broadcast and client_count interleave at the steps where    *)
(* they take, use and release the RwLock.  A writer's insert or remove is  *)
(* a read of the map followed by a write of it; a broadcast walks the map  *)
(* it holds and sends to one client per step.                              *)
(***************************************************************************)
Others ==
  <<os, db, files, hostRunning, rpcIds, faults, sw, api, crypto, repo, cmd>>

\* WsSession::started (339-345) calls register.
LkStarted(c) ==
  /\ session[c].state = "new"
  /\ task.ses[c].pc = "idle"
  /\ session' = [session EXCEPT ![c].state = "started"]
  /\ task' = [task EXCEPT !.ses[c] =
                [IdleTask EXCEPT !.pc = "wait", !.op = "register"]]
  /\ UNCHANGED <<Others, clients, inbox, calls, lock>>

\* WsSession::stopped (348-352) calls unregister.
LkStopped(c) ==
  /\ session[c].state = "started"
  /\ task.ses[c].pc = "done"
  /\ task.ses[c].op = "register"
  /\ session' = [session EXCEPT ![c] = StoppedSession("stream_end")]
  /\ inbox' = [inbox EXCEPT ![c] = {}]
  /\ task' = [task EXCEPT !.ses[c] =
                [IdleTask EXCEPT !.pc = "wait", !.op = "unregister"]]
  /\ UNCHANGED <<Others, clients, calls, lock>>

\* self.clients.write() (200, 213)
AcquireWrite(c) ==
  /\ task.ses[c].pc = "wait"
  /\ CanWrite(lock)
  /\ lock' = [lock EXCEPT !.writers = @ \cup {SessionTask(c)}]
  /\ task' = [task EXCEPT !.ses[c].pc = "locked"]
  /\ UNCHANGED <<Others, session, clients, inbox, calls>>

\* clients.insert / clients.remove (201, 214): the map is read ...
WriteLoad(c) ==
  /\ task.ses[c].pc = "locked"
  /\ task' = [task EXCEPT !.ses[c].pc = "loaded", !.ses[c].local = clients]
  /\ UNCHANGED <<Others, session, clients, inbox, calls, lock>>

\* ... and written, and clients.len() is logged (202, 215).
WriteStore(c) ==
  /\ task.ses[c].pc = "loaded"
  /\ clients' = IF task.ses[c].op = "register"
                  THEN register(task.ses[c].local, c)
                  ELSE unregister(task.ses[c].local, c)
  /\ task' = [task EXCEPT !.ses[c].pc = "written",
                          !.ses[c].n = client_count(clients')]
  /\ UNCHANGED <<Others, session, inbox, calls, lock>>

\* The write guard is dropped at the end of register / unregister (203, 216).
ReleaseWrite(c) ==
  /\ task.ses[c].pc = "written"
  /\ lock' = [lock EXCEPT !.writers = @ \ {SessionTask(c)}]
  /\ task' = [task EXCEPT !.ses[c].pc = "done"]
  /\ UNCHANGED <<Others, session, clients, inbox, calls>>

\* A request handler calls broadcast_event (514-519) or
\* extension_client_count (464-466).
CallBegin(k, op) ==
  /\ task.req[k].pc \in {"idle", "done"}
  /\ calls < MaxCalls
  /\ calls' = calls + 1
  /\ task' = [task EXCEPT !.req[k] = [IdleTask EXCEPT !.pc = "wait", !.op = op]]
  /\ UNCHANGED <<Others, session, clients, inbox, lock>>

\* self.clients.read() (220, 236)
AcquireRead(k) ==
  /\ task.req[k].pc = "wait"
  /\ CanRead(lock)
  /\ lock' = [lock EXCEPT !.readers = @ \cup {CallerTask(k)}]
  /\ task' = [task EXCEPT !.req[k].pc = "locked", !.req[k].seen = clients]
  /\ UNCHANGED <<Others, session, clients, inbox, calls>>

\* One turn of the loop of broadcast (238-240): do_send to the next client of
\* the map; a stopped actor has no mailbox left.
SendOne(k, c) ==
  /\ task.req[k].pc = "locked"
  /\ task.req[k].op = "broadcast"
  /\ c \in clients \ task.req[k].sent
  /\ task' = [task EXCEPT !.req[k].sent = @ \cup {c}]
  /\ inbox' = IF session[c].state = "started"
                THEN broadcast({c}, inbox,
                               [type |-> "event", id |-> 0,
                                method |-> "account_changed"])
                ELSE inbox
  /\ UNCHANGED <<Others, session, clients, calls, lock>>

\* client_count (220): len() of the map under the read guard.
ReadCount(k) ==
  /\ task.req[k].pc = "locked"
  /\ task.req[k].op = "count"
  /\ task' = [task EXCEPT !.req[k].pc = "finished",
                          !.req[k].n = client_count(clients)]
  /\ UNCHANGED <<Others, session, clients, inbox, calls, lock>>

\* The read guard is dropped: after the loop of broadcast (241), after len().
ReleaseRead(k) ==
  /\ \/ task.req[k].pc = "finished"
     \/ /\ task.req[k].pc = "locked"
        /\ task.req[k].op = "broadcast"
        /\ clients \ task.req[k].sent = {}
  /\ lock' = [lock EXCEPT !.readers = @ \ {CallerTask(k)}]
  /\ task' = [task EXCEPT !.req[k].pc = "done"]
  /\ UNCHANGED <<Others, session, clients, inbox, calls>>

InitLock == InitWs

NextLock ==
  \/ \E c \in ClientIds : LkStarted(c)
  \/ \E c \in ClientIds : LkStopped(c)
  \/ \E c \in ClientIds : AcquireWrite(c)
  \/ \E c \in ClientIds : WriteLoad(c)
  \/ \E c \in ClientIds : WriteStore(c)
  \/ \E c \in ClientIds : ReleaseWrite(c)
  \/ \E k \in Reqs : \E op \in {"broadcast", "count"} : CallBegin(k, op)
  \/ \E k \in Reqs : AcquireRead(k)
  \/ \E k \in Reqs : \E c \in ClientIds : SendOne(k, c)
  \/ \E k \in Reqs : ReadCount(k)
  \/ \E k \in Reqs : ReleaseRead(k)

SpecLock == InitLock /\ [][NextLock]_vars

(***************************************************************************)
(* Switches in flight together.  The HTTP server runs its handlers on      *)
(* several worker threads (server/mod.rs 503) and switch_account (71-77)   *)
(* calls switch with nothing in between, so two calls of switch reach the  *)
(* store through two SQLite connections and interleave at the statements   *)
(* of clear_database and restore_database, each of which commits on its    *)
(* own.  An extension is connected, so both calls take the live-reload     *)
(* sequence; both targets have a backup that carries every field; no       *)
(* statement fails.                                                        *)
(***************************************************************************)
ConcAccounts == {"a@x", "b@x"}

ConcFiles ==
  [a \in Accounts |->
     IF a \in ConcAccounts
       THEN JsonFile([f \in Fields |->
              IF f \in RestoreFields THEN a \o "." \o f ELSE NoField])
       ELSE MissingFile]

\* Statement i of clear_database alone (antigravity_cleanup.rs 42-72).
ClearStmt(file, i) ==
  clear_database(file, [open |-> FALSE, stmts |-> (1..4) \ {i}]).file

\* Statement i of restore_database alone (antigravity_restore.rs 41-105).
RestoreStmt(file, backup_data, i) ==
  IF RestoreRuns(backup_data, i)
    THEN [file EXCEPT !.rows[RestoreStmts[i].key] = RestoreValue(backup_data, i)]
    ELSE file

\* Mutant: a switch is admitted only when no other switch is in flight.
MutSwitchAnySingleFlight(r, a) ==
  /\ \A q \in Reqs \ {r} : sw[q].pc \in {"idle", "done"}
  /\ Begin(r, a, FALSE)

\* switch_account (server/mod.rs 71-77): every request calls switch.
SwitchAny(r, a) ==
  /\ Begin(r, a, FALSE)

\* The next statement of the reset of call r (services/account.rs 327).
ConcClear(r) ==
  /\ sw[r].pc = "clear"
  /\ db.primary.exists
  /\ ~db.sibling.exists
  /\ LET i == sw[r].stmt + 1 IN
     /\ db' = [db EXCEPT !.primary = ClearStmt(@, i)]
     /\ sw' = [sw EXCEPT ![r] =
                 IF i = 4 THEN [Advance(sw[r]) EXCEPT !.stmt = 0]
                          ELSE [sw[r] EXCEPT !.stmt = i]]
  /\ UNCHANGED <<os, files, hostRunning, session, clients, inbox, rpcIds,
                 faults, calls, api, lock, task, crypto, repo, cmd>>

\* The next statement of the restore of call r (services/account.rs 331).
ConcRestore(r) ==
  /\ sw[r].pc = "restore"
  /\ files[sw[r].account_name].exists
  /\ files[sw[r].account_name].valid
  /\ ~db.sibling.exists
  /\ LET i == sw[r].stmt + 1 IN
     /\ db' = [db EXCEPT !.primary =
                 RestoreStmt(Opened(@), files[sw[r].account_name].json, i)]
     /\ sw' = [sw EXCEPT ![r] =
                 IF i = 5 THEN [Advance(sw[r]) EXCEPT !.stmt = 0]
                          ELSE [sw[r] EXCEPT !.stmt = i]]
  /\ UNCHANGED <<os, files, hostRunning, session, clients, inbox, rpcIds,
                 faults, calls, api, lock, task, crypto, repo, cmd>>

InitConc ==
  /\ os = "linux"
  /\ db = [primary |-> Table(LiveRows(Keys)), sibling |-> NoFile]
  /\ files = ConcFiles
  /\ hostRunning = TRUE
  /\ session = [c \in ClientIds |->
                  IF c = 1 THEN [NewSession EXCEPT !.state = "started"]
                           ELSE NewSession]
  /\ clients = {1}
  /\ inbox = [c \in ClientIds |-> {}]
  /\ rpcIds = {}
  /\ faults = 0
  /\ calls = 0
  /\ sw = [r \in Reqs |-> IdleReq]
  /\ api = NoApi
  /\ lock = FreeLock
  /\ task = NoTasks
  /\ crypto = NoCrypto
  /\ repo = NoRepo
  /\ cmd = NoCmd

NextConc ==
  \/ \E r \in Reqs : \E a \in ConcAccounts : SwitchAny(r, a)
  \/ \E r \in Reqs : SwitchCount(r)
  \/ \E r \in Reqs : ConcClear(r)
  \/ \E r \in Reqs : ConcRestore(r)
  \/ \E r \in Reqs : SwitchSettle(r)
  \/ \E r \in Reqs : SwitchNotify(r)

SpecConc == InitConc /\ [][NextConc]_vars

(***************************************************************************)
(* An export and its import: encrypt_config_data is called on a text and   *)
(* a password, with the salt and the nonce the random generator gave, and  *)
(* decrypt_config_data on a text and a password: on the result of encrypt, *)
(* on that result with a byte of the cipher text altered, on a garbled     *)
(* envelope, or on an export of the legacy format. Both run through the    *)
(* command (commands/account_manage_commands.rs), through the functions    *)
(* of the security module (security/crypto.rs) or through the routes       *)
(* (server/mod.rs 364-378, services/crypto.rs).                            *)
(***************************************************************************)
MaxChars == 2

\* "A", "{" and a character of two bytes.
Chars == {<<65>>, <<123>>, <<195, 169>>}

RECURSIVE Texts(_)
Texts(n) ==
  IF n = 0 THEN {<<>>}
  ELSE Texts(n - 1) \cup {t \o c : t \in Texts(n - 1), c \in Chars}

\* Passwords of ASCII letters: of 7, 8 and 9 bytes, and the empty one, one of
\* 5 bytes and the two around the upper limit.
Password(n, b) == [i \in 1..n |-> b + (i % 26)]
Passwords ==
  {Password(n, b) : n \in 7..9, b \in {48, 96}}
    \cup {Password(n, 65) : n \in {0, 5, MAX_PASSWORD_BYTES,
                                   MAX_PASSWORD_BYTES + 1}}

RandomBytes(n) == {[i \in 1..n |-> (s * i + 7) % 256] : s \in {0, 37}}

\* legacy_encrypt_xor_base64 (tests, 536-544): an export of the old format.
legacy_encrypt_xor_base64(plaintext, password) ==
  BASE64_encode([i \in 1..Len(plaintext) |->
                   Xor(plaintext[i], password[((i - 1) % Len(password)) + 1])])

\* The envelope inside a text encrypt_config_data returned.
EnvelopeOf(encrypted) ==
  serde_json_from_str(
    BASE64_decode(SubSeq(encrypted, Len(ENCRYPTED_PREFIX) + 1,
                         Len(encrypted))).val).val
Sealed(payload) ==
  ENCRYPTED_PREFIX \o BASE64_encode(serde_json_to_string(payload))

\* The envelope with byte i of its cipher text xored with delta.
Tampered(encrypted, i, delta) ==
  LET payload == EnvelopeOf(encrypted)
      ct == BASE64_decode(payload.ct_b64).val
  IN Sealed([payload EXCEPT
               !.ct_b64 = BASE64_encode([ct EXCEPT ![i] = Xor(@, delta)])])

\* Garbled envelopes: the text cut by one character, the JSON text without
\* its closing brace, and a salt of 15 bytes.
Garbled(encrypted) ==
  LET payload == EnvelopeOf(encrypted)
      json == serde_json_to_string(payload)
      salt == BASE64_decode(payload.salt_b64).val
  IN {SubSeq(encrypted, 1, Len(encrypted) - 1),
      ENCRYPTED_PREFIX \o BASE64_encode(SubSeq(json, 1, Len(json) - 1)),
      Sealed([payload EXCEPT
                !.salt_b64 = BASE64_encode(SubSeq(salt, 1, Len(salt) - 1))])}

Deltas == {1, 255}

\* An envelope written with cost parameters of its own: the key is derived
\* with them and they are what the envelope carries.
ForeignCosts == [m_cost_kib |-> 16384, t_cost |-> 2, p_cost |-> 2]
Foreign(json_data, password, salt, nonce, costs) ==
  LET key == hash_password_into(password, salt, costs.m_cost_kib,
                                costs.t_cost, costs.p_cost)
  IN [Payload(salt, nonce, cipher_encrypt(key, nonce, json_data)) EXCEPT
        !.m_cost_kib = costs.m_cost_kib,
        !.t_cost = costs.t_cost,
        !.p_cost = costs.p_cost]

\* Envelopes of another version or of another key derivation ("argon2i").
OtherVersions(payload) ==
  {[payload EXCEPT !.v = 2],
   [payload EXCEPT !.kdf = SubSeq(ARGON2ID, 1, Len(ARGON2ID) - 1)]}

\* Envelopes whose salt or nonce is a byte short or a byte long.
OtherLengths(payload) ==
  LET salt == BASE64_decode(payload.salt_b64).val
      nonce == BASE64_decode(payload.nonce_b64).val
  IN {[payload EXCEPT !.salt_b64 = BASE64_encode(SubSeq(salt, 1, Len(salt) - 1))],
      [payload EXCEPT !.salt_b64 = BASE64_encode(salt \o <<0>>)],
      [payload EXCEPT !.nonce_b64 = BASE64_encode(SubSeq(nonce, 1, Len(nonce) - 1))],
      [payload EXCEPT !.nonce_b64 = BASE64_encode(nonce \o <<0>>)]}

\* The texts decrypt is called on, by kind, and the passwords that go with
\* them: the password of the export or any other one for an export as it
\* is, the password of the export for an altered one.
DecryptKinds ==
  {"encrypted", "tampered", "garbled", "legacy", "own_cost", "version",
   "lengths"}
DecryptInputs(kind) ==
  IF kind = "legacy"
    THEN IF Len(crypto.password) = 0 THEN {}
         ELSE {legacy_encrypt_xor_base64(crypto.json_data, crypto.password)}
  ELSE IF kind \in {"own_cost", "version", "lengths"}
    THEN IF \/ Len(crypto.password) = 0
            \/ Len(crypto.password) > MAX_PASSWORD_BYTES
            \/ crypto.impl = "security"
           THEN {}
         ELSE LET payload == Foreign(crypto.json_data, crypto.password,
                                     crypto.salt, crypto.nonce, ForeignCosts)
              IN {Sealed(e) :
                    e \in IF kind = "own_cost" THEN {payload}
                          ELSE IF kind = "version" THEN OtherVersions(payload)
                          ELSE OtherLengths(payload)}
  ELSE IF ~crypto.encrypted.ok THEN {}
  ELSE IF kind = "encrypted" THEN {crypto.encrypted.val}
  ELSE IF crypto.impl # "command" THEN {}
  ELSE IF kind = "tampered"
    THEN {Tampered(crypto.encrypted.val, i, delta) :
            i \in 1..(Len(crypto.json_data) + TagLen), delta \in Deltas}
  ELSE Garbled(crypto.encrypted.val)
DecryptPasswords(kind) ==
  IF kind \in {"encrypted", "legacy"} THEN Passwords ELSE {crypto.password}

NonCrypto ==
  <<os, db, files, hostRunning, session, clients, inbox, rpcIds, faults,
    calls, sw, api, lock, task, repo, cmd>>

InitCrypto ==
  /\ os = "linux"
  /\ db = [primary |-> NoFile, sibling |-> NoFile]
  /\ hostRunning = FALSE
  /\ files = InitFiles
  /\ session = [c \in ClientIds |-> NewSession]
  /\ clients = {}
  /\ inbox = [c \in ClientIds |-> {}]
  /\ rpcIds = {}
  /\ faults = 0
  /\ calls = 0
  /\ sw = [r \in Reqs |-> IdleReq]
  /\ api = NoApi
  /\ lock = FreeLock
  /\ task = NoTasks
  /\ repo = NoRepo
  /\ cmd = NoCmd
  /\ \E impl \in {"command", "security", "route"} :
       \E json_data \in Texts(MaxChars), password \in Passwords,
          salt \in RandomBytes(SALT_BYTES),
          nonce \in RandomBytes(IF impl = "security" THEN NONCE_LEN
                                                     ELSE NONCE_BYTES) :
         crypto = [NoCrypto EXCEPT !.pc = "start", !.impl = impl,
                                   !.json_data = json_data,
                                   !.password = password,
                                   !.salt = salt, !.nonce = nonce]

\* The command encrypt_config_data.
EncryptConfigData ==
  /\ crypto.pc = "start"
  /\ crypto.impl = "command"
  /\ LET result == encrypt_config_data(crypto.json_data, crypto.password,
                                       crypto.salt, crypto.nonce)
     IN crypto' = [crypto EXCEPT
                     !.pc = "encrypted",
                     !.encrypted = result,
                     !.encrypt_left = encrypt_memory(crypto.password, result)]
  /\ UNCHANGED NonCrypto

\* The command decrypt_config_data.
DecryptConfigData ==
  /\ crypto.pc = "encrypted"
  /\ crypto.impl = "command"
  /\ \E kind \in DecryptKinds :
       \E encrypted_data \in DecryptInputs(kind),
          password \in DecryptPasswords(kind) :
         LET result == decrypt_config_data(encrypted_data, password)
         IN crypto' = [crypto EXCEPT
                         !.pc = "decrypted",
                         !.kind = kind,
                         !.encrypted_data = encrypted_data,
                         !.dpassword = password,
                         !.decrypted = result,
                         !.decrypt_left = decrypt_memory(encrypted_data,
                                                         password, result)]
  /\ UNCHANGED NonCrypto

\* security::crypto::encrypt_config_data.
CryptoEncryptConfigData ==
  /\ crypto.pc = "start"
  /\ crypto.impl = "security"
  /\ LET result == crypto_encrypt_config_data(crypto.json_data,
                     crypto.password, crypto.salt, crypto.nonce)
     IN crypto' = [crypto EXCEPT
                     !.pc = "encrypted",
                     !.encrypted = result,
                     !.encrypt_left = crypto_encrypt_memory(crypto.password,
                                                            result)]
  /\ UNCHANGED NonCrypto

\* security::crypto::decrypt_config_data.
CryptoDecryptConfigData ==
  /\ crypto.pc = "encrypted"
  /\ crypto.impl = "security"
  /\ \E kind \in DecryptKinds :
       \E encrypted_data \in DecryptInputs(kind),
          password \in DecryptPasswords(kind) :
         LET result == crypto_decrypt_config_data(encrypted_data, password)
         IN crypto' = [crypto EXCEPT
                         !.pc = "decrypted",
                         !.kind = kind,
                         !.encrypted_data = encrypted_data,
                         !.dpassword = password,
                         !.decrypted = result,
                         !.decrypt_left = crypto_decrypt_memory(password,
                                                                result)]
  /\ UNCHANGED NonCrypto

\* POST /api/encrypt_config_data (server/mod.rs 364-370).
encrypt_data ==
  /\ crypto.pc = "start"
  /\ crypto.impl = "route"
  /\ crypto' = [crypto EXCEPT
                  !.pc = "encrypted",
                  !.encrypted = services_encrypt_config_data(
                                  crypto.json_data, crypto.password),
                  !.encrypt_left = services_memory(crypto.password)]
  /\ UNCHANGED NonCrypto

\* POST /api/decrypt_config_data (server/mod.rs 372-378).
decrypt_data ==
  /\ crypto.pc = "encrypted"
  /\ crypto.impl = "route"
  /\ \E kind \in DecryptKinds :
       \E encrypted_data \in DecryptInputs(kind),
          password \in DecryptPasswords(kind) :
         crypto' = [crypto EXCEPT
                      !.pc = "decrypted",
                      !.kind = kind,
                      !.encrypted_data = encrypted_data,
                      !.dpassword = password,
                      !.decrypted = services_decrypt_config_data(
                                      encrypted_data, password),
                      !.decrypt_left = services_memory(password)]
  /\ UNCHANGED NonCrypto

NextCrypto ==
  \/ EncryptConfigData
  \/ DecryptConfigData
  \/ CryptoEncryptConfigData
  \/ CryptoDecryptConfigData
  \/ encrypt_data
  \/ decrypt_data

SpecCrypto == InitCrypto /\ [][NextCrypto]_vars

(***************************************************************************)
(* The account repository: the directory antigravity-accounts, one file    *)
(* {email}.json per identity. The text of a file is kept as its sequence   *)
(* of tokens: the opening brace, one token per member, the closing brace;  *)
(* a text written in part is a proper prefix of the whole. Saving is       *)
(* backup_current (services/account.rs 157-283), which writes the session  *)
(* of the state store with fs::write, or restore_backup_files              *)
(* (commands/account_manage_commands.rs 125-208), which writes a temporary *)
(* file, removes the old file and renames the temporary one. Listing is    *)
(* get_all (services/account.rs 9-82) or collect_account_contents          *)
(* (commands/account_manage_commands.rs 55-121). Each file system call is  *)
(* a step of its own, so that calls of several threads interleave.         *)
(***************************************************************************)
Token(k, v) == [k |-> k, v |-> v]
Open == Token("{", "")
Close == Token("}", "")

\* The identities accounts are saved for; the third file is someone else's.
SaveAccounts == {"a@x", "b@x"}
OtherAccount == "c@x"
SignedIn == "signed-in"

\* The base64 text of the SessionResponse of an identity, in its n-th state.
Versions == {1, 2}
JetskiState(email, n) == email \o "#" \o ToString(n)

\* decode_jetski_state_proto (antigravity/account.rs 6-30): an error for a
\* text that is empty, not base64 or not a SessionResponse.
decode_jetski_state_proto(b64) ==
  IF \E e \in Accounts, n \in Versions : b64 = JetskiState(e, n)
    THEN [ok |-> TRUE,
          email |-> CHOOSE e \in Accounts :
                      \E n \in Versions : b64 = JetskiState(e, n)]
    ELSE [ok |-> FALSE, email |-> ""]

\* serde_json::to_string_pretty of the object a save writes (services/
\* account.rs 234-251): the session state and, when there is one, the auth
\* status.
to_string_pretty(content) ==
  <<Open, Token(JetskiKey, content.jetski)>>
    \o (IF content.status = NoField THEN <<>>
        ELSE <<Token(AuthKey, content.status)>>)
    \o <<Close>>

\* serde_json::from_str on the text of a file: the members of the object,
\* an error for a text cut short.
from_str(text) ==
  IF /\ Len(text) >= 2
     /\ text[1] = Open
     /\ text[Len(text)] = Close
     /\ \A i \in 2..(Len(text) - 1) : text[i] \notin {Open, Close}
    THEN [ok |-> TRUE, members |-> {text[i] : i \in 2..(Len(text) - 1)}]
    ELSE [ok |-> FALSE, members |-> {}]

\* Value::get(key).and_then(as_str)
Member(json, key) ==
  IF \E m \in json.members : m.k = key
    THEN (CHOOSE m \in json.members : m.k = key).v
    ELSE NoField

\* Mutant: every identity is saved to one and the same file.
MutAccountFileFixed(email) == "a@x"

\* The path of the file of an identity (services/account.rs 233).
account_file(email) == email

File(text, mtime) ==
  [exists |-> TRUE, readable |-> TRUE, big |-> FALSE, text |-> text,
   mtime |-> mtime]

\* What an identity is saved as: its first state with an auth status, its
\* second state without one.
Contents(email) ==
  {[jetski |-> JetskiState(email, 1), status |-> SignedIn],
   [jetski |-> JetskiState(email, 2), status |-> NoField]}

\* The files a listing has to cope with.
BadKinds ==
  {"oversized", "unreadable", "invalid_json", "no_session", "undecodable"}
BadFile(kind, mtime) ==
  LET good == File(to_string_pretty([jetski |-> JetskiState(OtherAccount, 1),
                                     status |-> SignedIn]), mtime)
  IN CASE kind = "oversized" -> [good EXCEPT !.big = TRUE]
       [] kind = "unreadable" -> [good EXCEPT !.readable = FALSE]
       [] kind = "invalid_json" -> [good EXCEPT !.text = SubSeq(@, 1, 2)]
       [] kind = "no_session" ->
            [good EXCEPT !.text = <<Open, Token(AuthKey, SignedIn), Close>>]
       [] kind = "undecodable" ->
            [good EXCEPT !.text = <<Open, Token(JetskiKey, "AAAA"), Close>>]
       [] OTHER -> good

\* The rows of the state store of a host signed in with that content.
SessionRows(content) ==
  [k \in Keys |->
     IF k = JetskiKey
       THEN IF content.jetski = "" THEN Absent ELSE content.jetski
     ELSE IF k = AuthKey
       THEN IF content.status = NoField THEN Absent ELSE content.status
     ELSE Absent]

NonRepo ==
  <<os, files, hostRunning, session, clients, inbox, rpcIds, faults, calls,
    sw, api, lock, task, crypto>>

\* Everything but the store and the repository.
InitNonRepo ==
  /\ os = "linux"
  /\ files = InitFiles
  /\ hostRunning = TRUE
  /\ session = [c \in ClientIds |-> NewSession]
  /\ clients = {}
  /\ inbox = [c \in ClientIds |-> {}]
  /\ rpcIds = {}
  /\ faults = 0
  /\ calls = 0
  /\ sw = [r \in Reqs |-> IdleReq]
  /\ api = NoApi
  /\ lock = FreeLock
  /\ task = NoTasks
  /\ crypto = NoCrypto

\* A directory with the file of a@x, with or without a file of b@x, and
\* with a third file of any kind or none, modified in any order or at the
\* same time.
MaxMtime == 3
InitList ==
  /\ InitNonRepo
  /\ cmd = NoCmd
  /\ db = [primary |-> NoFile, sibling |-> NoFile]
  /\ \E first \in Contents("a@x"), second \in Contents("b@x") \cup {NoContent},
        other \in BadKinds \cup {"good", "none"},
        mtime \in [Accounts -> 1..MaxMtime] :
       repo = [NoRepo EXCEPT
                 !.clock = MaxMtime,
                 !.dir = [a \in Accounts |->
                            IF a = "a@x"
                              THEN File(to_string_pretty(first), mtime[a])
                            ELSE IF a = "b@x"
                              THEN IF second = NoContent THEN NoEntry
                                   ELSE File(to_string_pretty(second), mtime[a])
                            ELSE IF other = "none" THEN NoEntry
                            ELSE BadFile(other, mtime[a])]]

\* A directory with the file of a@x and the file of someone else, and a
\* store whose user is signed in as a@x, or signed out.
InitRepo ==
  /\ InitNonRepo
  /\ cmd = NoCmd
  /\ \E first \in Contents("a@x"), now \in Contents("a@x") \cup {NoContent} :
       /\ db = [primary |-> Table(SessionRows(now)), sibling |-> NoFile]
       /\ repo = [NoRepo EXCEPT
                    !.clock = 3,
                    !.dir = [a \in Accounts |->
                               IF a = "a@x"
                                 THEN File(to_string_pretty(first), 1)
                               ELSE IF a = "b@x" THEN NoEntry
                               ELSE BadFile("good", 3)]]

\* A save call is between its first and its last step.
Active(save) == save.pc \notin {"idle", "done"}

\* Save calls that run at the same time are calls for different identities.
MaySave(s, email) ==
  /\ ~Active(repo.save[s])
  /\ repo.saves < MaxSaves
  /\ \A t \in Savers : t < s => repo.save[t].pc # "idle"
  /\ \A t \in Savers \ {s} :
       Active(repo.save[t]) => repo.save[t].email # email

\* The save call s starts: every call in flight has met another one.
Started(s, call) ==
  [t \in Savers |->
     IF t = s
       THEN [call EXCEPT
               !.overlap = \E u \in Savers \ {s} : Active(repo.save[u])]
     ELSE IF Active(repo.save[t]) THEN [repo.save[t] EXCEPT !.overlap = TRUE]
     ELSE repo.save[t]]

\* backup_current up to the file's path (services/account.rs 157-247): the
\* session state and the auth status are read from the state store and the
\* email in the session state names the file.
BackupRead(s) ==
  LET jetski_state == db.primary.rows[JetskiKey]
      auth_status == db.primary.rows[AuthKey]
      decoded == decode_jetski_state_proto(jetski_state)
      failed(why) == [IdleSave EXCEPT !.pc = "done", !.via = "backup_current",
                                      !.result = why]
  IN /\ ~Active(repo.save[s])
     /\ repo.saves < MaxSaves
     /\ \A t \in Savers : t < s => repo.save[t].pc # "idle"
     /\ IF ~db.primary.exists \/ ~db.primary.table
          THEN repo' = [repo EXCEPT !.save[s] = failed("no_store"),
                                    !.saves = @ + 1]
        ELSE IF jetski_state = Absent
          THEN repo' = [repo EXCEPT !.save[s] = failed("no_session"),
                                    !.saves = @ + 1]
        ELSE IF ~decoded.ok
          THEN repo' = [repo EXCEPT !.save[s] = failed("undecodable"),
                                    !.saves = @ + 1]
        ELSE
          /\ MaySave(s, decoded.email)
          /\ repo' = [repo EXCEPT
                        !.saves = @ + 1,
                        !.save = Started(s,
                          [IdleSave EXCEPT
                             !.pc = "create",
                             !.via = "backup_current",
                             !.email = decoded.email,
                             !.content =
                               [jetski |-> jetski_state,
                                status |-> IF auth_status = Absent
                                             THEN NoField ELSE auth_status],
                             !.old = repo.dir[account_file(decoded.email)]])]
     /\ UNCHANGED <<NonRepo, db, cmd>>

\* Mutant: the file is opened without being truncated.
MutBackupCreateKeeps(s) ==
  LET call == repo.save[s]
      path == account_file(call.email)
  IN /\ call.pc = "create"
     /\ repo' = [repo EXCEPT
                   !.dir[path] = File(repo.dir[path].text, repo.clock + 1),
                   !.clock = @ + 1,
                   !.save[s].pc = "write"]
     /\ UNCHANGED <<NonRepo, db, cmd>>

\* std::fs::write (services/account.rs 248-252), first half: File::create
\* makes the file, or truncates the one that is there.
BackupCreate(s) ==
  LET call == repo.save[s]
      path == account_file(call.email)
  IN /\ call.pc = "create"
     /\ repo' = [repo EXCEPT
                   !.dir[path] = File(<<>>, repo.clock + 1),
                   !.clock = @ + 1,
                   !.save[s].pc = "write"]
     /\ UNCHANGED <<NonRepo, db, cmd>>

\* std::fs::write, second half: write_all puts the next part of the text
\* at the position the file is written to.
BackupWrite(s) ==
  LET call == repo.save[s]
      whole == to_string_pretty(call.content)
      path == account_file(call.email)
      text == repo.dir[path].text
      at == call.written + 1
  IN /\ call.pc = "write"
     /\ repo' = [repo EXCEPT
                   !.dir[path] =
                     File(IF at <= Len(text) THEN [text EXCEPT ![at] = whole[at]]
                          ELSE Append(text, whole[at]),
                          repo.clock + 1),
                   !.clock = @ + 1,
                   !.save[s].written = at,
                   !.save[s].pc = IF at = Len(whole) THEN "done" ELSE "write",
                   !.save[s].result = IF at = Len(whole) THEN "ok" ELSE "none"]
     /\ UNCHANGED <<NonRepo, db, cmd>>

\* restore_backup_files for one file, up to the temporary file (commands/
\* account_manage_commands.rs 150-189): the content is serialized and
\* written to a temporary file of the directory.
RestoreTmp(s) ==
  \E email \in SaveAccounts :
    \E content \in Contents(email) :
      /\ MaySave(s, email)
      /\ repo' = [repo EXCEPT
                    !.saves = @ + 1,
                    !.clock = @ + 1,
                    !.save = Started(s,
                      [IdleSave EXCEPT
                         !.pc = "remove",
                         !.via = "restore_backup_files",
                         !.email = email,
                         !.content = content,
                         !.old = repo.dir[account_file(email)],
                         !.tmp = to_string_pretty(content),
                         !.tmp_mtime = repo.clock + 1])]
      /\ UNCHANGED <<NonRepo, db, cmd>>

\* if file_path.exists() { fs::remove_file(&file_path) } (190-192)
RestoreRemove(s) ==
  LET call == repo.save[s] IN
  /\ call.pc = "remove"
  /\ repo' = [repo EXCEPT !.dir[account_file(call.email)] = NoEntry,
                          !.save[s].pc = "persist"]
  /\ UNCHANGED <<NonRepo, db, cmd>>

\* tmp.persist(&file_path) (193-194): the temporary file is renamed.
RestorePersist(s) ==
  LET call == repo.save[s] IN
  /\ call.pc = "persist"
  /\ repo' = [repo EXCEPT
                !.dir[account_file(call.email)] = File(call.tmp, call.tmp_mtime),
                !.save[s].pc = "done",
                !.save[s].tmp = <<>>,
                !.save[s].result = "ok"]
  /\ UNCHANGED <<NonRepo, db, cmd>>

\* read_dir of the directory (services/account.rs 22-23, commands/
\* account_manage_commands.rs 69): the files that are there.
ListBegin ==
  /\ repo.list.pc = "idle"
  /\ \E via \in {"get_all", "collect_account_contents"} :
       repo' = [repo EXCEPT
                  !.list = [IdleList EXCEPT
                              !.pc = "scan",
                              !.via = via,
                              !.todo = {a \in Accounts : repo.dir[a].exists},
                              !.seen = [a \in Accounts |->
                                          [NotSeen EXCEPT
                                             !.looked = ~repo.dir[a].exists]]]]
  /\ UNCHANGED <<NonRepo, db, cmd>>

Saw(file) ==
  [looked |-> TRUE, exists |-> file.exists,
   text |-> IF file.exists /\ file.readable THEN file.text ELSE <<>>]

\* One round of the loop of get_all (services/account.rs 25-59): the first
\* file that cannot be read, parsed or decoded ends the listing with Err.
GetAllEntry(a) ==
  LET file == repo.dir[a]
      backup_data == from_str(file.text)
      jetski_state == Member(backup_data, JetskiKey)
      decoded == decode_jetski_state_proto(jetski_state)
      why == IF ~file.exists \/ ~file.readable THEN "read"
             ELSE IF ~backup_data.ok THEN "json"
             ELSE IF jetski_state = NoField THEN "no_session"
             ELSE IF ~decoded.ok THEN "undecodable"
             ELSE "none"
  IN /\ repo.list.pc = "scan"
     /\ repo.list.via = "get_all"
     /\ a \in repo.list.todo
     /\ repo' = [repo EXCEPT
                   !.list.seen[a] = Saw(file),
                   !.list.todo = @ \ {a},
                   !.list.pc = IF why = "none" THEN "scan" ELSE "done",
                   !.list.result =
                     IF why = "none" THEN @ ELSE [NoListing EXCEPT !.err = why],
                   !.list.accounts =
                     IF why = "none"
                       THEN @ \cup {[name |-> a, mtime |-> file.mtime,
                                     text |-> file.text]}
                       ELSE @]
     /\ UNCHANGED <<NonRepo, db, cmd>>

\* One round of the loop of collect_account_contents (commands/
\* account_manage_commands.rs 69-118): a file that is too long, cannot be
\* read or is no JSON is skipped.
CollectEntry(a) ==
  LET file == repo.dir[a]
      skip == \/ file.exists /\ file.big
              \/ ~file.exists \/ ~file.readable
              \/ ~from_str(file.text).ok
  IN /\ repo.list.pc = "scan"
     /\ repo.list.via = "collect_account_contents"
     /\ a \in repo.list.todo
     /\ repo' = [repo EXCEPT
                   !.list.seen[a] = Saw(file),
                   !.list.todo = @ \ {a},
                   !.list.accounts =
                     IF skip THEN @
                     ELSE @ \cup {[name |-> a, mtime |-> file.mtime,
                                   text |-> file.text]}]
     /\ UNCHANGED <<NonRepo, db, cmd>>

\* Mutant: the comparison the other way round, the oldest first.
MutCmpOldestFirst(a, b) == a.mtime <= b.mtime

\* |a, b| b.0.cmp(&a.0) is not Greater: a may stand before b.
cmp_newest_first(a, b) == b.mtime <= a.mtime

\* accounts.sort_by(|a, b| b.0.cmp(&a.0)) (services/account.rs 61)
RECURSIVE SortNewestFirst(_)
SortNewestFirst(accounts) ==
  IF accounts = {} THEN <<>>
  ELSE LET first == CHOOSE x \in accounts :
                      \A y \in accounts : cmp_newest_first(x, y)
       IN <<first>> \o SortNewestFirst(accounts \ {first})

\* The end of the loop: get_all sorts what it found (services/account.rs
\* 61-63), collect_account_contents returns it as it is (120).
ListEnd ==
  /\ repo.list.pc = "scan"
  /\ repo.list.todo = {}
  /\ repo' = [repo EXCEPT
                !.list.pc = "done",
                !.list.result =
                  [ok |-> TRUE, err |-> "none",
                   accounts |-> SortNewestFirst(repo.list.accounts)]]
  /\ UNCHANGED <<NonRepo, db, cmd>>

NextList ==
  \/ ListBegin
  \/ \E a \in Accounts : GetAllEntry(a) \/ CollectEntry(a)
  \/ ListEnd

SpecList == InitList /\ [][NextList]_vars

NextRepo ==
  \/ \E s \in Savers :
       \/ BackupRead(s)
       \/ BackupCreate(s)
       \/ BackupWrite(s)
       \/ RestoreTmp(s)
       \/ RestoreRemove(s)
       \/ RestorePersist(s)
  \/ ListBegin
  \/ \E a \in Accounts : GetAllEntry(a) \/ CollectEntry(a)
  \/ ListEnd

SpecRepo == InitRepo /\ [][NextRepo]_vars

(***************************************************************************)
(* Account names. A name is the sequence of its characters; the commands   *)
(* turn it into the path <accounts dir>/<name>.json. What is at that path  *)
(* is whatever the file system has there: nothing, a file that is no JSON, *)
(* or an account file.                                                     *)
(***************************************************************************)
MaxNameLen == 3
NameLimit == 255
NameChars == {"a", "@", ".", "/", "\\", ":", " "}
LongName == [i \in 1..(NameLimit + 1) |-> "a"]
Names ==
  UNION {[1..n -> NameChars] : n \in 0..MaxNameLen} \cup {LongName}

\* c.is_ascii_alphanumeric() || matches!(c, '@' | '.' | '_' | '-' | '+')
NameCharAllowed(c) == c \in {"a", "@", ".", "_", "-", "+"}

\* is_safe_backup_name (commands/account_manage_commands.rs 10-19)
is_safe_backup_name(s) ==
  IF Len(s) = 0 \/ Len(s) > NameLimit THEN FALSE
  ELSE IF \E i \in 1..Len(s) : s[i] \in {"/", "\\", ":"} THEN FALSE
  ELSE \A i \in 1..Len(s) : NameCharAllowed(s[i])

\* What the claim calls a safe file-name fragment: not empty, not longer
\* than the bound, no path separator.
SafeFragment(s) ==
  /\ Len(s) >= 1 /\ Len(s) <= NameLimit
  /\ \A i \in 1..Len(s) : s[i] \notin {"/", "\\"}

\* The files a command may find at the path of a name.
Targets ==
  {MissingFile, CorruptFile,
   JsonFile([f \in Fields |->
               IF f \in RestoreFields THEN "x." \o f ELSE NoField])}

NameCmd(op, name, touched, ok) ==
  [op |-> op, pc |-> "done", name |-> name, touched |-> touched, ok |-> ok]

NonCmd ==
  <<os, files, hostRunning, session, clients, inbox, rpcIds, faults, calls,
    sw, api, lock, task, crypto, repo>>

\* delete_backup (commands/account_manage_commands.rs 212-229)
delete_backup(name, target) ==
  IF ~is_safe_backup_name(name) THEN NameCmd("delete_backup", name, {}, FALSE)
  ELSE IF target.exists
    THEN NameCmd("delete_backup", name, {"remove_file"}, TRUE)
  ELSE NameCmd("delete_backup", name, {}, FALSE)

DeleteBackup ==
  /\ cmd.pc = "idle"
  /\ \E name \in Names, target \in Targets :
       cmd' = delete_backup(name, target)
  /\ UNCHANGED <<NonCmd, db>>

\* delete_backup of main.rs (507-522): the name is joined as it is.
MainDeleteBackup ==
  /\ cmd.pc = "idle"
  /\ \E name \in Names, target \in Targets :
       cmd' = IF target.exists
                THEN NameCmd("main_delete_backup", name, {"remove_file"}, TRUE)
                ELSE NameCmd("main_delete_backup", name, {}, FALSE)
  /\ UNCHANGED <<NonCmd, db>>

\* restore_backup_files for one file (commands/account_manage_commands.rs
\* 149-196): the name of the file is checked first.
RestoreBackupFile ==
  /\ cmd.pc = "idle"
  /\ \E name \in Names, target \in Targets :
       cmd' = IF ~is_safe_backup_name(name)
                THEN NameCmd("restore_backup_files", name, {}, FALSE)
                ELSE NameCmd("restore_backup_files", name,
                             {"tempfile"}
                               \cup (IF target.exists THEN {"remove_file"}
                                     ELSE {})
                               \cup {"persist"}, TRUE)
  /\ UNCHANGED <<NonCmd, db>>

\* backup_current from the email on (services/account.rs 216-252): an
\* empty email is an error, any other names the file that is written.
BackupCurrentAs ==
  /\ cmd.pc = "idle"
  /\ \E email \in Names :
       cmd' = IF Len(email) = 0
                THEN NameCmd("backup_current", email, {}, FALSE)
                ELSE NameCmd("backup_current", email,
                             {"create_dir_all", "write"}, TRUE)
  /\ UNCHANGED <<NonCmd, db>>

\* restore (services/account.rs 291-300): the name is joined as it is and
\* the file at the path is restored from.
RestoreNamed ==
  /\ cmd.pc = "idle"
  /\ \E name \in Names, target \in Targets :
       LET r == restore_all_antigravity_data(db, target, NoRestoreFault,
                                            NoRestoreFault) IN
       /\ db' = r.db
       /\ cmd' = NameCmd("restore", name,
                         (IF target.exists THEN {"read_to_string"} ELSE {})
                           \cup (IF r.db # db THEN {"store"} ELSE {}),
                         r.ok)
  /\ UNCHANGED NonCmd

\* switch without an extension and without a running host (services/
\* account.rs 383-391): the store is reset, then restore is called.
SwitchNamed ==
  /\ cmd.pc = "idle"
  /\ \E name \in Names, target \in Targets :
       LET c == clear_all_antigravity_data(db, NoClearFault, NoClearFault)
           r == restore_all_antigravity_data(c.db, target, NoRestoreFault,
                                            NoRestoreFault)
       IN /\ db' = IF c.ok THEN r.db ELSE c.db
          /\ cmd' = NameCmd("switch", name,
                            (IF c.ok /\ target.exists
                               THEN {"read_to_string"} ELSE {})
                              \cup (IF db' # db THEN {"store"} ELSE {}),
                            c.ok /\ r.ok)
  /\ UNCHANGED NonCmd

\* The command has returned.
Returned ==
  /\ cmd.pc = "done"
  /\ cmd' = NoCmd
  /\ UNCHANGED <<NonCmd, db>>

InitName ==
  /\ InitNonRepo
  /\ cmd = NoCmd
  /\ repo = NoRepo
  /\ db \in OrchDbs

NextName ==
  \/ DeleteBackup
  \/ MainDeleteBackup
  \/ RestoreBackupFile
  \/ BackupCurrentAs
  \/ RestoreNamed
  \/ SwitchNamed
  \/ Returned

SpecName == InitName /\ [][NextName]_vars

(***************************************************************************)
(* clear_all_backups (commands/account_manage_commands.rs 232-260, and the *)
(* same loop in main.rs 524-548): the files of the directory are removed   *)
(* one by one. A file the file system refuses to remove is locked.         *)
(***************************************************************************)
\* Files of the directory whose extension is not json.
StrayFiles == {".restore_1.tmp", "notes.txt"}

IdleClear ==
  [op |-> "clear_all_backups", pc |-> "idle", locked |-> {}, todo |-> {},
   deleted_count |-> 0, failed |-> {}, ok |-> FALSE]

InitClear ==
  /\ InitNonRepo
  /\ cmd = NoCmd
  /\ db = [primary |-> NoFile, sibling |-> NoFile]
  /\ \E there \in SUBSET Accounts, stray \in SUBSET StrayFiles :
       /\ repo = [NoRepo EXCEPT
                    !.stray = stray,
                    !.dir = [a \in Accounts |->
                               IF a \in there THEN BadFile("good", 1)
                               ELSE NoEntry]]

\* fs::read_dir (239-240)
ClearBegin ==
  /\ cmd.pc = "idle"
  /\ \E locked \in SUBSET {a \in Accounts : repo.dir[a].exists} :
       cmd' = [IdleClear EXCEPT
                 !.pc = "loop",
                 !.locked = locked,
                 !.todo = {a \in Accounts : repo.dir[a].exists}
                            \cup repo.stray]
  /\ UNCHANGED <<NonCmd, db, repo>>

\* One round of the loop (242-250): remove_file, and `?` on its error.
ClearEntry(a) ==
  /\ cmd.pc = "loop"
  /\ a \in cmd.todo
  /\ IF a \in StrayFiles
       THEN /\ cmd' = [cmd EXCEPT !.todo = @ \ {a}]
            /\ UNCHANGED repo
     ELSE IF a \in cmd.locked
       THEN /\ cmd' = [cmd EXCEPT !.pc = "done", !.ok = FALSE,
                                  !.failed = @ \cup {a}]
            /\ UNCHANGED repo
       ELSE /\ cmd' = [cmd EXCEPT !.todo = @ \ {a},
                                  !.deleted_count = @ + 1]
            /\ repo' = [repo EXCEPT !.dir[a] = NoEntry]
  /\ UNCHANGED <<NonCmd, db>>

\* The end of the loop (253-256): Ok with the number of files removed.
ClearEnd ==
  /\ cmd.pc = "loop"
  /\ cmd.todo = {}
  /\ cmd' = [cmd EXCEPT !.pc = "done", !.ok = TRUE]
  /\ UNCHANGED <<NonCmd, db, repo>>

NextClear ==
  \/ ClearBegin
  \/ \E a \in Accounts \cup StrayFiles : ClearEntry(a)
  \/ ClearEnd

SpecClear == InitClear /\ [][NextClear]_vars

(***************************************************************************)
(* The names backups are written under. backup_current (services/          *)
(* account.rs 233) writes <email>.json. smart_backup_antigravity_account   *)
(* (main.rs 616-708) writes over the first file whose name starts with     *)
(* <email>_ and, when there is none, writes <email>_<timestamp>.json. A    *)
(* name is the sequence of its characters; the timestamp is one character. *)
(* A file is its name and the identity whose backup it holds.              *)
(***************************************************************************)
MaxBackups == 3
Emails == {<<"a">>, <<"b">>, <<"a", "_", "b">>}
Underscore == <<"_">>
Timestamp(n) == <<ToString(n)>>

\* str::starts_with
starts_with(text, prefix) ==
  /\ Len(text) >= Len(prefix)
  /\ SubSeq(text, 1, Len(prefix)) = prefix

\* account_name.split('_').next() (main.rs 766): up to the first underscore.
split_next(text) ==
  LET at == {i \in 1..Len(text) : text[i] = "_"}
  IN IF at = {} THEN text
     ELSE SubSeq(text, 1, (CHOOSE i \in at : \A j \in at : i <= j) - 1)

\* fs::write of the file of that name: a new file, or the old one replaced.
Written(dir, stem, owner) ==
  {f \in dir : f.stem # stem} \cup {[stem |-> stem, owner |-> owner]}

InitBackup ==
  /\ InitNonRepo
  /\ db = [primary |-> Table(LiveRows(Keys)), sibling |-> NoFile]
  /\ repo = NoRepo
  /\ cmd = [op |-> "none", pc |-> "idle", dir |-> {}, clock |-> 0,
            backups |-> 0]

\* backup_current for a store whose session names that email (services/
\* account.rs 216-252).
BackupCurrent(email) ==
  /\ cmd.backups < MaxBackups
  /\ cmd' = [cmd EXCEPT !.op = "backup_current",
                        !.backups = @ + 1,
                        !.dir = Written(@, email, email)]
  /\ UNCHANGED <<NonCmd, db>>

\* smart_backup_antigravity_account(email) (main.rs 616-708), at the time
\* the clock shows; find takes the first match in the order of read_dir.
smart_backup_antigravity_account(dir, email, now) ==
  LET email_prefix == email \o Underscore
      existing == {f.stem : f \in {g \in dir : starts_with(g.stem, email_prefix)}}
  IN IF existing # {}
       THEN {Written(dir, backup_name, email) : backup_name \in existing}
       ELSE {Written(dir, email \o Underscore \o Timestamp(now), email)}

SmartBackup(email) ==
  /\ cmd.backups < MaxBackups
  /\ \E dir \in smart_backup_antigravity_account(cmd.dir, email,
                                                 cmd.clock + 1) :
       cmd' = [cmd EXCEPT !.op = "smart_backup",
                          !.backups = @ + 1,
                          !.clock = @ + 1,
                          !.dir = dir]
  /\ UNCHANGED <<NonCmd, db>>

\* backup_antigravity_current_account(account_name) (main.rs 758-778),
\* called with the name of a backup that is there.
BackupAntigravityCurrentAccount ==
  /\ cmd.backups < MaxBackups
  /\ \E file \in cmd.dir :
       \E dir \in smart_backup_antigravity_account(
                    cmd.dir, split_next(file.stem), cmd.clock + 1) :
         cmd' = [cmd EXCEPT !.op = "backup_antigravity_current_account",
                            !.backups = @ + 1,
                            !.clock = @ + 1,
                            !.dir = dir]
  /\ UNCHANGED <<NonCmd, db>>

NextBackup ==
  \/ \E email \in Emails : BackupCurrent(email)
  \/ \E email \in Emails : SmartBackup(email)
  \/ BackupAntigravityCurrentAccount

SpecBackup == InitBackup /\ [][NextBackup]_vars

(***************************************************************************)
(* Vocabulary of the properties.                                           *)
(***************************************************************************)
IsPrefix(s, t) == Len(s) <= Len(t) /\ \A i \in 1..Len(s) : s[i] = t[i]
Has(seq, x) == \E i \in 1..Len(seq) : seq[i] = x

LiveReloadOrder == <<"clear", "restore", "settle", "notify">>
ColdRestartOrder == <<"kill", "wait", "clear", "restore", "settle", "launch">>

\* The store believes no account is signed in.
LoggedOut(file) ==
  /\ file.rows[MarkerKey] = RESET_MARKER_VALUE
  /\ \A i \in 1..3 : file.rows[DELETE_KEYS[i]] = Absent

ClearFailKinds == {"db_missing", "clear_primary_failed"}
RestoreFailKinds ==
  {"backup_missing", "backup_unparseable", "restore_primary_failed"}
StepFailKinds == {"kill_error"} \cup ClearFailKinds \cup RestoreFailKinds

Called(q) == q.pc # "idle"
Done(q) == q.pc = "done"

(***************************************************************************)
(* C1: a switch issued while no connection is registered and the host is   *)
(* running ends at once with the need-extension failure; it performs no    *)
(* terminate, reset, restore, broadcast or launch step, and no step of it  *)
(* changes the store (either copy), the host process or any inbox.         *)
(***************************************************************************)
C1_BlockedLeavesStoreUntouched ==
  /\ [](\A r \in Reqs :
          (Called(sw[r]) /\ ~sw[r].has_extension /\ sw[r].is_running) =>
             /\ Done(sw[r])
             /\ ~sw[r].result.ok
             /\ sw[r].result.kind = "need_extension"
             /\ sw[r].steps = <<>>
             /\ sw[r].rpc_id = 0)
  /\ [][\A r \in Reqs :
          (sw'[r] # sw[r] /\ ~sw'[r].has_extension /\ sw'[r].is_running) =>
             UNCHANGED <<db, hostRunning, inbox, rpcIds>>]_vars

C1_Witness ==
  /\ Done(sw[1])
  /\ ~sw[1].has_extension
  /\ sw[1].is_running
  /\ sw[1].result.kind = "need_extension"
  /\ db.primary.rows[AuthKey] = Live

(***************************************************************************)
(* C2: a switch that found a connection takes the LiveReload arm whether   *)
(* or not the host runs: unless reset or restore fails it ends in success  *)
(* after clear, restore, settle, notify; the notify step hands one         *)
(* reloadWindow request to every registered connection; no step of the     *)
(* call terminates or launches the host.                                   *)
(***************************************************************************)
C2_LiveReloadBroadcasts ==
  /\ [](\A r \in Reqs :
          (Done(sw[r]) /\ sw[r].has_extension) =>
             /\ ~Has(sw[r].steps, "kill")
             /\ ~Has(sw[r].steps, "launch")
             /\ \/ sw[r].result.kind \in ClearFailKinds \cup RestoreFailKinds
                \/ /\ sw[r].result.ok
                   /\ sw[r].result.kind = "reloading"
                   /\ sw[r].steps = LiveReloadOrder
                   /\ sw[r].rpc_id # 0)
  /\ [][\A r \in Reqs :
          (sw[r].pc = "notify" /\ sw'[r] # sw[r]) =>
             \A c \in clients :
               \E m \in inbox'[c] :
                 /\ m.type = "rpc_request"
                 /\ m.method = "reloadWindow"
                 /\ m.id = sw'[r].rpc_id]_vars
  /\ [][\A r \in Reqs :
          (Called(sw[r]) /\ ~Done(sw[r]) /\ sw[r].has_extension /\ sw'[r] # sw[r])
             => UNCHANGED hostRunning]_vars

C2_Witness ==
  /\ Done(sw[1])
  /\ sw[1].has_extension
  /\ sw[1].is_running
  /\ sw[1].result.ok
  /\ \E c \in clients : \E m \in inbox[c] : m.id = sw[1].rpc_id

(***************************************************************************)
(* C3 (as claimed): a switch issued with no connection and the host not    *)
(* running, whose terminate step finds no process, resets the store, and   *)
(* unless reset or restore fails it attempts the launch and ends either in *)
(* success or in the partial result "restored, launch failed".             *)
(***************************************************************************)
C3_ColdRestartMutatesAndLaunches ==
  \A r \in Reqs :
    (Done(sw[r]) /\ ~sw[r].has_extension /\ ~sw[r].is_running
       /\ os \in SupportedOS /\ sw[r].kill = "no_match") =>
      /\ Has(sw[r].steps, "clear")
      /\ sw[r].result.kind \notin ClearFailKinds \cup RestoreFailKinds =>
           /\ Has(sw[r].steps, "launch")
           /\ sw[r].result.ok \/ sw[r].result.kind = "restored_launch_failed"

(***************************************************************************)
(* C4: the steps a switch has performed are always an initial part of      *)
(* reset, restore, settle, notify (LiveReload) or of terminate, wait,      *)
(* reset, restore, settle, launch (ColdRestart): restore never precedes    *)
(* reset, and a request id is drawn and the host launched only after       *)
(* restore and the settle delay.                                           *)
(***************************************************************************)
C4_StepsInOrder ==
  \A r \in Reqs :
    Called(sw[r]) =>
      /\ sw[r].has_extension => IsPrefix(sw[r].steps, LiveReloadOrder)
      /\ (~sw[r].has_extension /\ ~sw[r].is_running) =>
           IsPrefix(sw[r].steps, ColdRestartOrder)
      /\ sw[r].rpc_id # 0 => sw[r].steps = LiveReloadOrder
      /\ sw[r].result.kind \in {"started", "restored_launch_failed"} =>
           sw[r].steps = ColdRestartOrder

C4_Witness ==
  /\ Done(sw[1])
  /\ sw[1].steps = ColdRestartOrder
  /\ sw[1].result.kind = "started"
  /\ db.primary.rows[AuthKey] = "a@x.auth_status"

(***************************************************************************)
(* C5 (as claimed, final clause): a restore step that fails on a store the *)
(* reset left logged out leaves that store logged out.                     *)
(***************************************************************************)
C5_RestoreFailureLeavesLoggedOut ==
  [][\A r \in Reqs :
       (/\ sw[r].pc = "restore"
        /\ sw'[r].result.kind \in RestoreFailKinds
        /\ LoggedOut(db.primary)) => LoggedOut(db'.primary)]_vars

\* The values the snapshot of account a holds for key k.
SnapshotValues(a, k) ==
  {RestoreValue(files[a].json, i) :
     i \in {j \in 1..5 : RestoreStmts[j].key = k
                           /\ RestoreRuns(files[a].json, j)}}

(***************************************************************************)
(* C5 (amended): a failing terminate, reset or restore step ends the       *)
(* switch with one error; no later step runs (no request id is drawn, no   *)
(* broadcast, no launch); nothing is rolled back: a failing terminate or   *)
(* reset leaves both copies as they were, and after a failing restore      *)
(* every row of the primary copy holds what the reset left or, for the     *)
(* upserts done before the failure, the snapshot's value.                  *)
(***************************************************************************)
C5_FailingStepAbortsNoRollback ==
  /\ [](\A r \in Reqs :
          sw[r].result.kind \in StepFailKinds =>
            /\ Done(sw[r])
            /\ ~sw[r].result.ok
            /\ sw[r].rpc_id = 0
            /\ ~Has(sw[r].steps, "notify")
            /\ ~Has(sw[r].steps, "launch")
            /\ sw[r].steps # <<>>
            /\ LET last == sw[r].steps[Len(sw[r].steps)] IN
               /\ sw[r].result.kind = "kill_error" => last = "kill"
               /\ sw[r].result.kind \in ClearFailKinds => last = "clear"
               /\ sw[r].result.kind \in RestoreFailKinds =>
                    last = "restore" /\ Has(sw[r].steps, "clear"))
  /\ [][\A r \in Reqs :
          (sw'[r] # sw[r] /\ sw'[r].result.kind \in StepFailKinds) =>
            /\ UNCHANGED <<hostRunning, inbox, rpcIds>>
            /\ sw'[r].result.kind \notin RestoreFailKinds => UNCHANGED db
            /\ sw'[r].result.kind \in RestoreFailKinds =>
                 /\ db'.sibling = db.sibling
                 /\ \A k \in Keys :
                      db'.primary.rows[k] \in
                        {db.primary.rows[k]}
                          \cup SnapshotValues(sw[r].account_name, k)]_vars

C5_Witness ==
  /\ Done(sw[1])
  /\ sw[1].result.kind = "restore_primary_failed"
  /\ sw[1].account_name = "a@x"
  /\ db.primary.rows[AuthKey] = "a@x.auth_status"
  /\ db.primary.rows[ProfileKey] = Absent
  /\ db.primary.rows[MarkerKey] = RESET_MARKER_VALUE

(***************************************************************************)
(* C6 (as claimed): the count in the success result of a LiveReload switch *)
(* is the number of connections the reload request was sent to.            *)
(***************************************************************************)
C6_ResultNamesNotified ==
  \A r \in Reqs :
    (Done(sw[r]) /\ sw[r].result.kind = "reloading") =>
      sw[r].result.n = sw[r].notified

(***************************************************************************)
(* C8 (as claimed): on the ColdRestart path a terminate step that finds no *)
(* host process counts as success and the switch goes on to the reset, on  *)
(* every operating system the terminate step supports; a terminate step    *)
(* that fails for another reason (no permission, unsupported system) ends  *)
(* the switch with an error and no reset.                                  *)
(***************************************************************************)
C8_NotFoundIsSuccess ==
  \A r \in Reqs :
    /\ (Done(sw[r]) /\ os \in SupportedOS /\ sw[r].kill = "no_match") =>
          /\ sw[r].result.kind # "kill_error"
          /\ Has(sw[r].steps, "clear")
    /\ (\/ sw[r].kill \in {"spawn_denied", "kill_denied"}
        \/ sw[r].kill # "none" /\ os \notin SupportedOS) =>
          /\ sw[r].result.kind = "kill_error"
          /\ ~Has(sw[r].steps, "clear")

(***************************************************************************)
(* C7 (as claimed): a successful switch that repeats the successful call   *)
(* before it (same target, same connection and host conditions) leaves the *)
(* primary store with the contents it had when the repeated call began.    *)
(***************************************************************************)
C7_SwitchTwiceSameStore ==
  (Done(sw[1]) /\ sw[1].chained /\ sw[1].result.ok) =>
     db.primary = sw[1].dbAtCall.primary

KnownKeys == {AuthKey, ProfileKey, OnboardingKey, MarkerKey}

(***************************************************************************)
(* C9: after a reset, whatever its result, every row other than the        *)
(* auth-status, profile, onboarding and integrity-marker rows is present   *)
(* or absent, and holds the value, as before the reset, in both copies.    *)
(***************************************************************************)
C9_ResetTouchesKnownKeysOnly ==
  api.op = "clear" =>
    \A k \in Keys \ KnownKeys :
      /\ db.primary.rows[k] = api.before.primary.rows[k]
      /\ db.sibling.rows[k] = api.before.sibling.rows[k]

C9_Witness ==
  /\ api.op = "clear"
  /\ api.result.ok
  /\ api.before.primary.rows[AuthKey] = Live
  /\ api.before.primary.rows[SettingsKey] = Live
  /\ api.before.primary.rows[OtherKey] = Live
  /\ db.primary.rows[AuthKey] = Absent
  /\ db.primary.rows[SettingsKey] = Live
  /\ db.primary.rows[OtherKey] = Live

(***************************************************************************)
(* C10 (as claimed): after a reset that reports success the integrity      *)
(* marker row of the primary copy holds the logged-out reference value and *)
(* the auth-status, profile and onboarding rows are absent.                *)
(***************************************************************************)
C10_ResetLeavesLoggedOut ==
  (api.op = "clear" /\ api.result.ok) => LoggedOut(db.primary)

\* The value the snapshot of the last restore holds for statement i.
SnapshotField(i) == files[api.account_name].json[RestoreStmts[i].field]

(***************************************************************************)
(* C11: after a restore that returns success, the auth-status, profile,    *)
(* user-settings and integrity-marker rows of the primary copy (and of the *)
(* sibling when it was restored too) hold the snapshot's string where the  *)
(* snapshot carries one; a row whose field the snapshot does not carry (no *)
(* field, or no string) holds, after any restore, what it held before: in  *)
(* particular the marker the reset produced.                               *)
(***************************************************************************)
C11_RestoreUpsertsWhatSnapshotCarries ==
  api.op = "restore" =>
    \A i \in 1..4 :
      LET k == RestoreStmts[i].key
          v == SnapshotField(i)
      IN /\ (IsStr(v) /\ api.result.ok) => db.primary.rows[k] = v
         /\ (IsStr(v) /\ api.result.ok /\ api.result.n = 2) =>
              db.sibling.rows[k] = v
         /\ ~IsStr(v) =>
              /\ db.primary.rows[k] = api.before.primary.rows[k]
              /\ db.sibling.rows[k] = api.before.sibling.rows[k]

C11_Witness ==
  /\ api.op = "restore"
  /\ api.result.ok
  /\ IsStr(SnapshotField(1))
  /\ SnapshotField(3) = NonString
  /\ SnapshotField(4) = NoField
  /\ api.before.primary.rows[MarkerKey] = RESET_MARKER_VALUE
  /\ api.before.primary.rows[AuthKey] = Absent
  /\ db.primary.rows[MarkerKey] = RESET_MARKER_VALUE
  /\ db.primary.rows[AuthKey] = SnapshotField(1)
  /\ db.primary.rows[SettingsKey] = Live

(***************************************************************************)
(* C12: after a restore that returns success the analytics-timestamp row   *)
(* of the primary copy holds '0', whatever the snapshot carries and        *)
(* whatever the row held before.                                           *)
(***************************************************************************)
C12_RestoreResetsAnalytics ==
  (api.op = "restore" /\ api.result.ok) => db.primary.rows[AnalyticsKey] = "0"

C12_Witness ==
  /\ api.op = "restore"
  /\ api.result.ok
  /\ \A i \in 1..4 : ~IsStr(SnapshotField(i))
  /\ api.before.primary.rows[AnalyticsKey] = Live
  /\ db.primary.rows[AnalyticsKey] = "0"

\* Whether the last direct call met a failure on the primary copy: the file
\* could not be opened, or a statement it ran returned an error.
PrimaryClearFailed ==
  \/ ~api.before.primary.exists
  \/ api.fp.open
  \/ \E i \in 1..4 : ClearStmtFails(Opened(api.before.primary), api.fp, i)
PrimaryRestoreFailed ==
  \/ api.fp.open
  \/ \E i \in 1..5 :
       /\ RestoreRuns(files[api.account_name].json, i)
       /\ ~Opened(api.before.primary).table \/ api.fp.failAt = i

(***************************************************************************)
(* C13 (as claimed): a reset or a restore that fails to update the primary *)
(* copy returns an error; one that updates the primary copy returns        *)
(* success whether or not the sibling copy could be updated, and when the  *)
(* sibling exists and no failure hits it the sibling is updated too.       *)
(***************************************************************************)
C13_PrimaryFatalSiblingTolerated ==
  /\ api.op = "clear" =>
       /\ PrimaryClearFailed => ~api.result.ok
       /\ ~PrimaryClearFailed => api.result.ok
       /\ (api.result.ok /\ api.before.sibling.table /\ api.fs = NoClearFault)
            => LoggedOut(db.sibling) \/ api.before.sibling.rows[MarkerKey] = Absent
  /\ (api.op = "restore" /\ files[api.account_name].valid) =>
       /\ PrimaryRestoreFailed => ~api.result.ok
       /\ ~PrimaryRestoreFailed => api.result.ok
       /\ (api.result.ok /\ api.before.sibling.table /\ api.fs = NoRestoreFault)
            => db.sibling.rows[AnalyticsKey] = "0"

(***************************************************************************)
(* C14: a registered session whose last liveness signal is older than the  *)
(* client timeout is, unless a signal arrives before its next heartbeat    *)
(* check, stopped by that check and then removed from the registry: the    *)
(* check of such a session calls stop, the stopped session leaves the      *)
(* registry, the count drops by one and has_connections() is false when    *)
(* it was the last one.                                                    *)
(***************************************************************************)
C14_SilentConnectionIsRemoved ==
  /\ \A c \in ClientIds :
       (session[c].state = "started" /\ session[c].age > CLIENT_TIMEOUT)
         ~> (c \notin clients \/ session[c].age <= CLIENT_TIMEOUT)
  /\ [][\A c \in ClientIds :
          (/\ session[c].state = "started"
           /\ session[c].due = 0
           /\ session[c].age > CLIENT_TIMEOUT
           /\ session'[c] # session[c]
           /\ session'[c].last = "none"
           /\ session'[c].why # "stream_end") =>
             /\ session'[c].state = "stopping"
             /\ session'[c].why = "heartbeat_timeout"]_vars
  /\ [][\A c \in ClientIds :
          (session[c].state = "stopping" /\ session'[c] # session[c]) =>
             /\ session'[c].state = "stopped"
             /\ c \notin clients'
             /\ client_count(clients') = client_count(clients) - 1
             /\ clients = {c} => ~has_connections(clients')]_vars
  /\ [](\A c \in ClientIds :
          /\ session[c].state \in {"started", "stopping"} <=> c \in clients
          /\ session[c].why = "heartbeat_timeout" =>
               session[c].state \in {"stopping", "stopped"})

C14_Witness ==
  /\ session[1].state = "stopped"
  /\ session[1].why = "heartbeat_timeout"
  /\ session[2].state = "stopped"
  /\ session[2].why = "stream_end"
  /\ ~has_connections(clients)
  /\ client_count(clients) = 0

(***************************************************************************)
(* C15: every inbound frame counts as a liveness signal: a session that    *)
(* the heartbeat check stops has let some period longer than the client    *)
(* timeout pass without delivering an inbound frame of any kind.           *)
(***************************************************************************)
C15_AnyInboundFrameKeepsAlive ==
  \A c \in ClientIds :
    (session[c].state = "stopping" /\ session[c].why = "heartbeat_timeout")
      => session[c].silent

\* The inbound frames that are malformed: a text frame that is no JSON
\* message of the protocol, and a frame that violates the websocket protocol
\* (websocket.rs 385-387, 398-401).
MalformedKinds == {"text_malformed", "protocol_error"}

RpcRequest(id, method) == [type |-> "rpc_request", id |-> id, method |-> method]

(***************************************************************************)
(* C17: every call_all draws an id no earlier broadcast carries, hands the *)
(* one request with that id to exactly the sessions registered at the call *)
(* and to no other, in one step that needs no reply (it is enabled         *)
(* whatever the clients have answered); the ids drawn are as many as the   *)
(* broadcasts made, and a frame a client sends, an rpc_response included,  *)
(* changes neither the registry nor the requests sent nor the ids.         *)
(***************************************************************************)
C17_CallAllFreshIdFireAndForget ==
  /\ [][calls' # calls =>
          \E id \in 1..MaxCalls :
            /\ id \notin rpcIds
            /\ rpcIds' = rpcIds \cup {id}
            /\ \A c \in ClientIds :
                 inbox'[c] = IF c \in clients
                               THEN inbox[c] \cup {RpcRequest(id, "reloadWindow")}
                               ELSE inbox[c]
            /\ \A c \in ClientIds : \A m \in inbox[c] : m.id # id
            /\ clients' = clients
            /\ session' = session]_vars
  /\ [][(\E c \in ClientIds :
           /\ session[c].state = "started"
           /\ session'[c].state = "started"
           /\ session'[c] # session[c]
           /\ session'[c].last # "none") =>
          (clients' = clients /\ inbox' = inbox /\ rpcIds' = rpcIds)]_vars
  /\ [](Cardinality(rpcIds) = calls)
  /\ [](calls < MaxCalls => ENABLED CallAllExtensions)

C17_Witness ==
  /\ calls = 2
  /\ rpcIds = {1, 2}
  /\ clients = {1, 2}
  /\ inbox[1] = {RpcRequest(1, "reloadWindow"), RpcRequest(2, "reloadWindow")}
  /\ inbox[2] = {RpcRequest(2, "reloadWindow")}
  /\ session[1].last = "text_rpc_response"
  /\ session[2].last = "none"

\* The registration of session c is in force: its register has written the
\* map and its unregister has not.
Registered(c) ==
  \/ task.ses[c].op = "register" /\ task.ses[c].pc \in {"written", "done"}
  \/ task.ses[c].op = "unregister" /\
       task.ses[c].pc \in {"wait", "locked", "loaded"}

(***************************************************************************)
(* C18: under every interleaving of register, unregister, broadcast and    *)
(* count, a writer holds the lock alone while readers may hold it          *)
(* together (a read is granted whenever no writer holds the lock), the     *)
(* registry holds exactly the sessions whose registration is in force (no  *)
(* insert or remove is lost), the map does not change under a reader, a    *)
(* finished broadcast has sent to exactly the clients registered when it   *)
(* took the lock, and a count is the size of the map at that instant.      *)
(***************************************************************************)
C18_RegistryIsReaderWriterSafe ==
  /\ Cardinality(lock.writers) <= 1
  /\ lock.writers # {} => lock.readers = {}
  /\ \A k \in Reqs :
       (task.req[k].pc = "wait" /\ lock.writers = {}) => ENABLED AcquireRead(k)
  /\ \A c \in ClientIds : c \in clients <=> Registered(c)
  /\ \A c \in ClientIds :
       task.ses[c].pc = "written" => task.ses[c].n = client_count(clients)
  /\ \A k \in Reqs :
       /\ task.req[k].pc \in {"locked", "finished"} =>
            (clients = task.req[k].seen /\ task.req[k].sent \subseteq clients)
       /\ (task.req[k].pc = "done" /\ task.req[k].op = "broadcast") =>
            task.req[k].sent = task.req[k].seen
       /\ (task.req[k].pc \in {"finished", "done"} /\ task.req[k].op = "count")
            => task.req[k].n = Cardinality(task.req[k].seen)

C18_Witness ==
  /\ lock.readers = {CallerTask(1), CallerTask(2)}
  /\ task.req[1].op = "broadcast"
  /\ task.req[1].sent = {1}
  /\ task.req[2].op = "count"
  /\ task.req[2].n = 2
  /\ clients = {1, 2}
  /\ task.ses[2].op = "unregister"
  /\ task.ses[2].pc = "wait"

\* The store holds the complete snapshot of account a: every row the
\* restore of a writes holds a's value.
HoldsSnapshot(file, a) ==
  \A i \in 1..4 :
    /\ RestoreRuns(files[a].json, i)
    /\ file.rows[RestoreStmts[i].key] = RestoreValue(files[a].json, i)

\* Both calls have returned success.
BothDone ==
  \A r \in Reqs : sw[r].pc = "done" /\ sw[r].result.ok

(***************************************************************************)
(* C19: the engine does not serialize switches.  A switch is admitted      *)
(* whatever the other calls are doing, and the next statement of a reset   *)
(* or of a restore runs whatever the other calls have done to the store;   *)
(* when every call has returned success, each restored row holds the       *)
(* value of one of the targets, not necessarily the same target for every  *)
(* row (the witness: two successful calls for different accounts and a     *)
(* store that holds the complete snapshot of neither).                     *)
(***************************************************************************)
C19_SwitchesAreNotSerialized ==
  /\ \A r \in Reqs, a \in ConcAccounts :
       (sw[r].pc \in {"idle", "done"} /\ calls < MaxCalls)
         => ENABLED SwitchAny(r, a)
  /\ \A r \in Reqs :
       /\ sw[r].pc = "clear" => ENABLED ConcClear(r)
       /\ sw[r].pc = "restore" => ENABLED ConcRestore(r)
  /\ BothDone =>
       \A i \in 1..4 : \E r \in Reqs :
         db.primary.rows[RestoreStmts[i].key] =
           RestoreValue(files[sw[r].account_name].json, i)

C19_Witness ==
  /\ BothDone
  /\ sw[1].account_name = "a@x"
  /\ sw[2].account_name = "b@x"
  /\ ~HoldsSnapshot(db.primary, "a@x")
  /\ ~HoldsSnapshot(db.primary, "b@x")
  /\ faults = 0

\* The inputs the round trip is claimed for.
RoundTripInput ==
  /\ Utf8Valid(crypto.json_data)
  /\ Len(crypto.json_data) <= MAX_PLAINTEXT_BYTES
  /\ Len(crypto.password) \in MIN_PASSWORD_BYTES..MAX_PASSWORD_BYTES

(***************************************************************************)
(* C20: for a valid UTF-8 text of at most 5 MiB and a password of 8 to     *)
(* 1024 bytes, encrypt succeeds and decrypt of its result with the same    *)
(* password returns exactly the text.                                      *)
(***************************************************************************)
C20_DecryptOfEncryptIsIdentity ==
  RoundTripInput =>
    /\ crypto.pc \in {"encrypted", "decrypted"} => crypto.encrypted.ok
    /\ (/\ crypto.pc = "decrypted"
        /\ crypto.kind = "encrypted"
        /\ crypto.dpassword = crypto.password)
         => crypto.decrypted = Ok(crypto.json_data)

C20_Witness ==
  /\ crypto.pc = "decrypted"
  /\ crypto.impl = "command"
  /\ Len(crypto.password) = MIN_PASSWORD_BYTES
  /\ crypto.json_data = <<195, 169, 123>>
  /\ crypto.encrypted.ok
  /\ SubSeq(crypto.encrypted.val, 1, 7) = ENCRYPTED_PREFIX
  /\ crypto.decrypted = Ok(<<195, 169, 123>>)

\* encrypt has returned (and decrypt may have been called since).
Encrypted == crypto.pc \in {"encrypted", "decrypted"}
PasswordErrors == {"password_empty", "password_too_short", "password_too_long"}
Rejected(result) == ~result.ok /\ result.err \in PasswordErrors

(***************************************************************************)
(* C21: through the command and through the route /api/encrypt_config_data *)
(* alike, every text a successful encrypt returns starts with the prefix   *)
(* "AGENC1:" and is never the legacy format, the base64 text of the bytes  *)
(* xored with the password.                                                *)
(***************************************************************************)
C21_EncryptWritesCurrentFormat ==
  (Encrypted /\ crypto.impl \in {"command", "route"} /\ crypto.encrypted.ok) =>
    /\ HasPrefix(crypto.encrypted.val)
    /\ crypto.encrypted.val
         # legacy_encrypt_xor_base64(crypto.json_data, crypto.password)

(***************************************************************************)
(* C22: encrypt rejects a password of no bytes, of fewer than 8 bytes and  *)
(* of more than 1024 bytes with an error, with no key derived and no       *)
(* output; decrypt rejects a password exactly when it is empty or longer   *)
(* than 1024 bytes.                                                        *)
(***************************************************************************)
C22_PasswordLengthIsChecked ==
  /\ (Encrypted /\ Len(crypto.password)
                     \notin MIN_PASSWORD_BYTES..MAX_PASSWORD_BYTES) =>
       Rejected(crypto.encrypted) /\ crypto.encrypt_left.key = "none"
  /\ crypto.pc = "decrypted" =>
       (Rejected(crypto.decrypted)
          <=> Len(crypto.dpassword) \notin 1..MAX_PASSWORD_BYTES)

\* decrypt was called on the export as it is with another password.
WrongPassword ==
  /\ crypto.kind = "encrypted"
  /\ crypto.dpassword # crypto.password

(***************************************************************************)
(* C23: decrypt of an authenticated export returns an error, never a text, *)
(* when the password is not the one encrypt was given or when one byte of  *)
(* the cipher text was altered.                                            *)
(***************************************************************************)
C23_WrongPasswordOrAlteredByteFails ==
  (/\ crypto.pc = "decrypted"
   /\ crypto.impl \in {"command", "security"}
   /\ WrongPassword \/ crypto.kind = "tampered")
    => ~crypto.decrypted.ok

C23_Witness ==
  /\ crypto.pc = "decrypted"
  /\ crypto.impl = "command"
  /\ crypto.kind = "tampered"
  /\ HasPrefix(crypto.encrypted_data)
  /\ crypto.encrypted_data # crypto.encrypted.val
  /\ crypto.json_data = <<123, 65>>
  /\ crypto.decrypted = Err("wrong_password_or_corrupted")

\* decrypt was called, by the command or the route, on the legacy export of
\* the text under the password it is given.
LegacyInput ==
  /\ crypto.pc = "decrypted"
  /\ crypto.impl \in {"command", "route"}
  /\ crypto.kind = "legacy"
  /\ crypto.dpassword = crypto.password

FailureCause ==
  /\ crypto.pc = "decrypted"
  /\ crypto.impl = "command"
  /\ HasPrefix(crypto.encrypted_data)
  /\ Len(crypto.dpassword) \in 1..MAX_PASSWORD_BYTES
  /\ WrongPassword \/ crypto.kind \in {"tampered", "garbled"}

(***************************************************************************)
(* C25: decrypt of a text with the prefix returns one and the same error   *)
(* for a wrong password, for an altered cipher text and for a garbled      *)
(* envelope: the error of the failed authentication.                       *)
(***************************************************************************)
C25_FailureCauseIsNotTold ==
  FailureCause => crypto.decrypted = Err("wrong_password_or_corrupted")

\* Nothing of the password or of the key is left in the memory.
Wiped(memory) ==
  /\ memory.password_bytes \in {"zeroed", "empty"}
  /\ memory.key \in {"zeroed", "none"}

(***************************************************************************)
(* C26: when encrypt or decrypt returns, with a result or with an error,   *)
(* the bytes of the password and the derived key have been zeroed.         *)
(***************************************************************************)
C26_PasswordAndKeyAreZeroed ==
  /\ Encrypted => Wiped(crypto.encrypt_left)
  /\ crypto.pc = "decrypted" => Wiped(crypto.decrypt_left)

\* A file a listing has to return: it can be read, is not too long, is JSON
\* and holds a session record that decodes.
ValidAccount(file) ==
  /\ file.exists /\ file.readable /\ ~file.big
  /\ from_str(file.text).ok
  /\ decode_jetski_state_proto(Member(from_str(file.text), JetskiKey)).ok

\* The names a finished listing returned.
Listed ==
  {repo.list.result.accounts[i].name :
     i \in 1..Len(repo.list.result.accounts)}

(***************************************************************************)
(* C27: a listing of a directory that holds a file which is too long,      *)
(* cannot be read, is no JSON or holds no session record that decodes      *)
(* does not fail: it returns every valid account, and no file that is too  *)
(* long, unreadable or no JSON.                                            *)
(***************************************************************************)
C27_ListSkipsBadFiles ==
  repo.list.pc = "done" =>
    /\ repo.list.result.ok
    /\ \A a \in Accounts :
         /\ ValidAccount(repo.dir[a]) => a \in Listed
         /\ a \in Listed =>
              /\ repo.dir[a].exists /\ repo.dir[a].readable
              /\ ~repo.dir[a].big
              /\ from_str(repo.dir[a].text).ok

\* A save call in flight that overwrites the file of a, which was there.
Overwriting(a) ==
  {s \in Savers : /\ Active(repo.save[s])
                  /\ repo.save[s].email = a
                  /\ repo.save[s].old.exists}

(***************************************************************************)
(* C28: a listing that looks at the file of an identity while a save call  *)
(* overwrites it finds the file, and finds in it the whole old record or   *)
(* the whole new one.                                                      *)
(***************************************************************************)
C28_ListSeesOldOrNewRecord ==
  [][\A a \in SaveAccounts :
       \A s \in Overwriting(a) :
         (repo'.list.seen[a] # repo.list.seen[a] /\ repo'.list.seen[a].looked)
           => /\ repo'.list.seen[a].exists
              /\ repo'.list.seen[a].text \in
                   {repo.save[s].old.text,
                    to_string_pretty(repo.save[s].content)}]_vars

\* The save call s has completed and no other call has saved its identity.
SavedLast(s) ==
  /\ repo.save[s].pc = "done"
  /\ repo.save[s].result = "ok"
  /\ \A t \in Savers \ {s} : repo.save[t].email # repo.save[s].email

\* The file of the identity of the call s holds the record s wrote.
HoldsOwnRecord(s) ==
  LET file == repo.dir[repo.save[s].email] IN
  /\ file.exists /\ file.readable
  /\ file.text = to_string_pretty(repo.save[s].content)

(***************************************************************************)
(* C29: when save calls for two different identities have run at the same  *)
(* time and both have completed, the file of each identity holds exactly   *)
(* the record its own call wrote, whichever call completed first.          *)
(***************************************************************************)
C29_ConcurrentSavesKeepBothFiles ==
  \A s, t \in Savers :
    (s # t /\ SavedLast(s) /\ SavedLast(t)
       /\ repo.save[s].overlap /\ repo.save[t].overlap)
      => HoldsOwnRecord(s) /\ HoldsOwnRecord(t)

\* Two overlapping calls, one through each way of saving, have completed.
C29_Witness ==
  \E s, t \in Savers :
    /\ s # t /\ SavedLast(s) /\ SavedLast(t)
    /\ repo.save[s].overlap /\ repo.save[t].overlap
    /\ repo.save[s].via = "backup_current"
    /\ repo.save[t].via = "restore_backup_files"
    /\ repo.save[s].email # repo.save[t].email

\* The step completes the save call s.
Completes(s) ==
  /\ repo.save[s].pc # "done"
  /\ repo'.save[s].pc = "done"
  /\ repo'.save[s].result = "ok"

(***************************************************************************)
(* C30: a save that completes leaves in the file of its identity the       *)
(* record it was given and nothing else: a member the record has not is    *)
(* not in the file, whatever the file held before; every other file is as  *)
(* it was; and when the file held that very record before the call, the    *)
(* file's text is what it was.                                             *)
(***************************************************************************)
C30_SaveReplacesWithoutMerge ==
  [][\A s \in Savers :
       Completes(s) =>
         LET call == repo'.save[s]
             path == account_file(call.email)
             saved == from_str(repo'.dir[path].text)
         IN /\ repo'.dir[path].exists
            /\ saved.ok
            /\ Member(saved, JetskiKey) = call.content.jetski
            /\ Member(saved, AuthKey) = call.content.status
            /\ \A m \in saved.members : m.k \in {JetskiKey, AuthKey}
            /\ \A a \in Accounts \ {path} : repo'.dir[a] = repo.dir[a]
            /\ (call.old.exists
                  /\ call.old.text = to_string_pretty(call.content))
                 => repo'.dir[path].text = call.old.text]_vars

\* One call has replaced a record with an auth status by one without, and
\* another call has then saved that record again.
C30_Witness ==
  \E s, t \in Savers :
    /\ s # t
    /\ repo.save[s].pc = "done" /\ repo.save[s].result = "ok"
    /\ repo.save[t].pc = "done" /\ repo.save[t].result = "ok"
    /\ repo.save[s].old.exists
    /\ Member(from_str(repo.save[s].old.text), AuthKey) # NoField
    /\ repo.save[s].content.status = NoField
    /\ repo.save[t].old.text = to_string_pretty(repo.save[s].content)
    /\ repo.save[t].content = repo.save[s].content
    /\ {repo.save[s].via, repo.save[t].via} =
         {"backup_current", "restore_backup_files"}

(***************************************************************************)
(* C31: a command that saves, deletes, restores or switches to a name that *)
(* is empty, longer than the bound or holds a path separator returns an    *)
(* error and has touched neither a file nor the store.                     *)
(***************************************************************************)
C31_UnsafeNameIsRejectedFirst ==
  (cmd.pc = "done" /\ ~SafeFragment(cmd.name)) =>
    ~cmd.ok /\ cmd.touched = {}

(***************************************************************************)
(* C32: the accounts get_all returns are ordered by the modification time  *)
(* of their files, the newest first: of two adjacent entries the first     *)
(* was modified no earlier than the second.                                *)
(***************************************************************************)
C32_ListIsNewestFirst ==
  (repo.list.pc = "done" /\ repo.list.via = "get_all" /\ repo.list.result.ok)
    => \A i \in 1..(Len(repo.list.result.accounts) - 1) :
         repo.list.result.accounts[i].mtime
           >= repo.list.result.accounts[i + 1].mtime

\* get_all has returned three accounts, not all of one time and not in the
\* order of their names.
C32_Witness ==
  /\ repo.list.pc = "done" /\ repo.list.via = "get_all" /\ repo.list.result.ok
  /\ Len(repo.list.result.accounts) = 3
  /\ repo.list.result.accounts[1].name = "b@x"
  /\ repo.list.result.accounts[1].mtime > repo.list.result.accounts[2].mtime
  /\ repo.list.result.accounts[2].mtime > repo.list.result.accounts[3].mtime
  /\ repo.list.result.accounts[3].name = "a@x"

(***************************************************************************)
(* C33: when clear_all_backups has returned, every account file that could *)
(* be removed is gone, also when another file could not be removed, and    *)
(* the files reported as failed are exactly those that could not.          *)
(***************************************************************************)
C33_ClearAllGoesOnAfterFailure ==
  (cmd.op = "clear_all_backups" /\ cmd.pc = "done") =>
    /\ \A a \in Accounts \ cmd.locked : ~repo.dir[a].exists
    /\ cmd.failed = cmd.locked

\* The errors of the path for texts with the prefix, and of the other one.
EnvelopeErrors ==
  {"invalid_format", "unsupported_version", "invalid_params",
   "wrong_password_or_corrupted"}
LegacyErrors == {"base64_failed"}

(***************************************************************************)
(* C34: decrypt with a password of 1 to 1024 bytes takes the envelope path *)
(* for a text with the prefix and the legacy path for any other: a text    *)
(* with the prefix never gets the base64 error of the legacy path and a    *)
(* text without it never an error of the envelope path; an envelope of     *)
(* another version or key derivation gets the unsupported-version error,   *)
(* one with a salt not of 16 or a nonce not of 24 bytes the format error,  *)
(* and one written with cost parameters of its own decrypts to its text.   *)
(***************************************************************************)
C34_DecryptDispatch ==
  (/\ crypto.pc = "decrypted"
   /\ Len(crypto.dpassword) >= 1
   /\ Len(crypto.dpassword) <= MAX_PASSWORD_BYTES
   /\ crypto.impl # "security") =>
    /\ HasPrefix(crypto.encrypted_data) =>
         crypto.decrypted.err \notin LegacyErrors
    /\ ~HasPrefix(crypto.encrypted_data) =>
         crypto.decrypted.err \notin EnvelopeErrors
    /\ crypto.kind = "version" =>
         crypto.decrypted = Err("unsupported_version")
    /\ crypto.kind = "lengths" => crypto.decrypted = Err("invalid_format")
    /\ crypto.kind = "own_cost" => crypto.decrypted = Ok(crypto.json_data)

\* The files of the directory that hold a backup of the identity.
BackupsOf(email) == {f \in cmd.dir : f.owner = email}

(***************************************************************************)
(* C35: after any sequence of backups the directory holds at most one      *)
(* backup file for each identity.                                          *)
(***************************************************************************)
C35_OneBackupPerIdentity ==
  \A email \in Emails \cup {split_next(e) : e \in Emails} :
    Cardinality(BackupsOf(email)) <= 1

\* The sessions whose started() has run and whose stopped() has not.
LiveSessions ==
  {c \in ClientIds : session[c].state \in {"started", "stopping"}}

(***************************************************************************)
(* C36: the registry holds exactly the connections whose session has       *)
(* started and has not stopped; client_count is their number and           *)
(* has_connections is true exactly when it is above 0, so that both are 0  *)
(* and false once every session has stopped.                               *)
(***************************************************************************)
C36_RegistryIsTheLiveSessions ==
  /\ clients = LiveSessions
  /\ client_count(clients) = Cardinality(LiveSessions)
  /\ has_connections(clients) <=> client_count(clients) > 0
  /\ LiveSessions = {} =>
       client_count(clients) = 0 /\ ~has_connections(clients)

\* Both sessions were registered and have stopped, one on a heartbeat
\* timeout and one on a close frame or a protocol error.
C36_Witness ==
  /\ \A c \in ClientIds : session[c].state = "stopped"
  /\ \E c \in ClientIds : session[c].why = "heartbeat_timeout"
  /\ \E c \in ClientIds : session[c].why \in {"close", "protocol_error"}
  /\ client_count(clients) = 0
  /\ ~has_connections(clients)

(***************************************************************************)
(* C37: a switch that returns the success result of the LiveReload arm     *)
(* has handed the reloadWindow request to at least one connection, also    *)
(* when the connections it counted have gone before the broadcast.         *)
(***************************************************************************)
C37_ReloadReachesSomeone ==
  \A r \in Reqs :
    (Done(sw[r]) /\ sw[r].result.ok /\ sw[r].result.kind = "reloading") =>
      sw[r].notified >= 1

(***************************************************************************)
(* Backup followed by restore.  The two backups of the repository write    *)
(* a JSON object each; restore parses the file and hands the object to     *)
(* restore_database.  The host may sign in as someone else, or sign out,   *)
(* between the backup and the restore.                                     *)
(***************************************************************************)
NonRound ==
  <<os, hostRunning, session, clients, inbox, rpcIds, faults, calls, sw, api,
    lock, task, crypto, repo>>

\* Option<String>::None in json! is null, which as_str() does not accept.
OptionValue(row) == IF row = Absent THEN NonString ELSE row

\* backup_data.to_string() of the object smart_backup_antigravity_account
\* builds (main.rs 687-700).
smart_to_string(backup_name, rows) ==
  <<Open,
    Token("account_name", backup_name),
    Token("auth_status", OptionValue(rows[AuthKey])),
    Token("profile_url", OptionValue(rows[ProfileKey])),
    Token("user_settings", OptionValue(rows[SettingsKey])),
    Token("target_storage_marker", OptionValue(rows[MarkerKey])),
    Token("version", "1.0"),
    Close>>

\* fs::read_to_string and serde_json::from_str of restore_all_antigravity_data
\* (antigravity_restore.rs 137-147), and the get() of restore_database.
ReadBackup(text) ==
  LET json == from_str(text) IN
  IF json.ok THEN JsonFile([f \in Fields |-> Member(json, f)])
  ELSE CorruptFile

\* The rows of a store whose host is signed in with that content.
HostRows(content, extra) ==
  [k \in Keys |->
     IF k \in {JetskiKey, AuthKey} THEN SessionRows(content)[k]
     ELSE IF k \in extra THEN Live ELSE Absent]

SignedOut == [jetski |-> "", status |-> NoField]
HostContents == UNION {Contents(e) : e \in SaveAccounts} \cup {SignedOut}

RoundCmd(op, pc, name, rows, ok) ==
  [op |-> op, pc |-> pc, name |-> name, jetski |-> rows[JetskiKey],
   status |-> rows[AuthKey], ok |-> ok]

InitRound ==
  /\ InitNonRepo
  /\ repo = NoRepo
  /\ cmd = NoCmd
  /\ \E content \in HostContents \ {SignedOut} :
       \E extra \in {Keys, Keys \ {MarkerKey}} :
         \E sibling \in BOOLEAN :
           db = [primary |-> Table(HostRows(content, extra)),
                 sibling |-> IF sibling THEN Table(HostRows(content, extra))
                             ELSE NoFile]

\* backup_current (services/account.rs 157-256) on a store and a directory
\* of backups: the file is named by the email of the session and holds the
\* session and the auth status under the keys of the store.
backup_current(d, dir) ==
  LET rows == d.primary.rows
      decoded == decode_jetski_state_proto(rows[JetskiKey])
      content == [jetski |-> rows[JetskiKey],
                  status |-> IF rows[AuthKey] = Absent THEN NoField
                             ELSE rows[AuthKey]]
  IN IF \/ ~d.primary.exists
        \/ ~d.primary.table
        \/ rows[JetskiKey] = Absent
        \/ ~decoded.ok
       THEN [ok |-> FALSE, email |-> "", files |-> dir]
       ELSE [ok |-> TRUE, email |-> decoded.email,
             files |-> [dir EXCEPT ![account_file(decoded.email)] =
                          ReadBackup(to_string_pretty(content))]]

RoundBackupCurrent ==
  LET b == backup_current(db, files) IN
  /\ cmd.pc = "idle"
  /\ b.ok
  /\ cmd' = RoundCmd("backup_current", "saved", b.email, db.primary.rows, TRUE)
  /\ files' = b.files
  /\ UNCHANGED <<NonRound, db>>

\* smart_backup_antigravity_account (main.rs 616-708) for the identity the
\* caller names; the file is kept under that identity here, its time
\* stamp is part of the name only.
RoundSmartBackup(email) ==
  /\ cmd.pc = "idle"
  /\ cmd' = RoundCmd("smart_backup", "saved", email, db.primary.rows, TRUE)
  /\ files' = [files EXCEPT ![email] =
                 ReadBackup(smart_to_string(email, db.primary.rows))]
  /\ UNCHANGED <<NonRound, db>>

\* The host signs in as someone else, or signs out: it rewrites its rows.
RoundHostChanges(content) ==
  /\ cmd.pc = "saved"
  /\ SessionRows(content)[JetskiKey] # db.primary.rows[JetskiKey]
  /\ db' = [db EXCEPT !.primary.rows =
              [k \in Keys |->
                 IF k \in {JetskiKey, AuthKey} THEN SessionRows(content)[k]
                 ELSE @[k]]]
  /\ UNCHANGED <<NonRound, files, cmd>>

\* restore (services/account.rs 291-300; main.rs 780-795)
RoundRestore ==
  LET r == restore_all_antigravity_data(db, files[cmd.name], NoRestoreFault,
                                        NoRestoreFault)
  IN /\ cmd.pc = "saved"
     /\ db' = r.db
     /\ cmd' = [cmd EXCEPT !.pc = "restored", !.ok = r.ok]
     /\ UNCHANGED <<NonRound, files>>

\* switch without a running host and without connections: clear, then
\* restore (services/account.rs 387-390).
RoundSwitch ==
  LET c == clear_all_antigravity_data(db, NoClearFault, NoClearFault)
      r == restore_all_antigravity_data(c.db, files[cmd.name], NoRestoreFault,
                                        NoRestoreFault)
  IN /\ cmd.pc = "saved"
     /\ db' = IF c.ok THEN r.db ELSE c.db
     /\ cmd' = [cmd EXCEPT !.pc = "switched", !.ok = c.ok /\ r.ok]
     /\ UNCHANGED <<NonRound, files>>

NextRound ==
  \/ RoundBackupCurrent
  \/ \E email \in SaveAccounts : RoundSmartBackup(email)
  \/ \E content \in HostContents : RoundHostChanges(content)
  \/ RoundRestore
  \/ RoundSwitch

SpecRound == InitRound /\ [][NextRound]_vars

(***************************************************************************)
(* C38: after a backup of the current account as identity X and a          *)
(* successful restore or switch for X, the session row and the auth-status *)
(* row of the store hold the values they held when the backup was taken.   *)
(***************************************************************************)
C38_BackupRestoreRoundTrip ==
  (cmd.pc \in {"restored", "switched"} /\ cmd.ok) =>
    /\ db.primary.rows[JetskiKey] = cmd.jetski
    /\ db.primary.rows[AuthKey] = cmd.status

(***************************************************************************)
(* sign_in_new (services/account.rs 411-452) and the command               *)
(* sign_in_new_antigravity_account (commands/account_manage_commands.rs    *)
(* 444-530): terminate, backup, clear, launch.                             *)
(***************************************************************************)
SignVias == {"sign_in_new", "sign_in_new_antigravity_account"}

IdleSign ==
  [op |-> "none", pc |-> "idle", steps |-> <<>>, kill |-> "none",
   backup |-> FALSE, clear |-> FALSE, launch |-> FALSE, ok |-> FALSE,
   before |-> [a \in Accounts |-> MissingFile]]

\* The stores the command finds: a signed-in store with or without its
\* sibling, a store without a session row, and no store at all.
SignDbs ==
  {[primary |-> Table(HostRows(content, Keys)), sibling |-> sib] :
     content \in HostContents, sib \in {NoFile, Table(LiveRows(Keys))}}
    \cup {[primary |-> NoFile, sibling |-> NoFile]}

InitSign ==
  /\ InitNonRepo
  /\ repo = NoRepo
  /\ cmd = IdleSign
  /\ db \in SignDbs

NonSign ==
  <<session, clients, inbox, rpcIds, calls, sw, api, lock, task, crypto, repo>>

\* The host or the operating system changes before the command is called.
SignEnv ==
  /\ cmd.pc = "idle"
  /\ \E o \in OSes, running \in BOOLEAN :
       /\ <<o, running>> # <<os, hostRunning>>
       /\ os' = o
       /\ hostRunning' = running
  /\ UNCHANGED <<NonSign, db, files, faults, cmd>>

SignBegin(via) ==
  /\ cmd.pc = "idle"
  /\ cmd' = [cmd EXCEPT !.op = via, !.pc = "kill", !.before = files]
  /\ UNCHANGED <<NonSign, os, hostRunning, db, files, faults>>

\* Step 1 (services/account.rs 415-426; commands 449-468): an Err of the
\* kill ends the command unless its text says "not found".
SignKill ==
  /\ cmd.pc = "kill"
  /\ \E outcome \in KillOutcomes :
       /\ outcome \in {"killed", "kill_denied"} => hostRunning
       /\ outcome = "no_match" => ~hostRunning
       /\ KillFaulty(outcome) => faults < MaxFaults
       /\ LET res == kill_antigravity_processes(os, outcome) IN
          /\ cmd' = [cmd EXCEPT
                       !.kill = outcome,
                       !.steps = Append(@, "terminate"),
                       !.pc = IF KillTolerated(res) THEN "backup" ELSE "done",
                       !.ok = FALSE]
          /\ hostRunning' = (hostRunning /\ ~KillStops(os, outcome))
          /\ faults' = faults + (IF KillFaulty(outcome) THEN 1 ELSE 0)
  /\ UNCHANGED <<NonSign, os, db, files>>

\* Step 2 (431-438; 474-485): the error of the backup is logged only.
SignBackup ==
  LET b == backup_current(db, files) IN
  /\ cmd.pc = "backup"
  /\ files' = b.files
  /\ cmd' = [cmd EXCEPT !.backup = b.ok, !.steps = Append(@, "backup"),
                        !.pc = "clear"]
  /\ UNCHANGED <<NonSign, os, hostRunning, db, faults>>

\* Step 3 (440-441; 487-497): the result of the clear is dropped.
SignClear ==
  /\ cmd.pc = "clear"
  /\ \E open \in BOOLEAN :
       /\ open => faults < MaxFaults
       /\ LET c == clear_all_antigravity_data(
                     db, [NoClearFault EXCEPT !.open = open], NoClearFault)
          IN /\ db' = c.db
             /\ cmd' = [cmd EXCEPT !.clear = c.ok,
                                   !.steps = Append(@, "clear"),
                                   !.pc = "launch"]
       /\ faults' = faults + (IF open THEN 1 ELSE 0)
  /\ UNCHANGED <<NonSign, os, hostRunning, files>>

\* Step 4 (444-451; 502-527): a failed launch becomes part of the message.
SignLaunch ==
  /\ cmd.pc = "launch"
  /\ \E launched \in BOOLEAN :
       LET res == start_antigravity(os, launched) IN
       /\ hostRunning' = (hostRunning \/ res.ok)
       /\ cmd' = [cmd EXCEPT !.launch = res.ok,
                             !.steps = Append(@, "launch"),
                             !.pc = "done",
                             !.ok = TRUE]
  /\ UNCHANGED <<NonSign, os, db, files, faults>>

NextSign ==
  \/ SignEnv
  \/ \E via \in SignVias : SignBegin(via)
  \/ SignKill
  \/ SignBackup
  \/ SignClear
  \/ SignLaunch

SpecSign == InitSign /\ [][NextSign]_vars

(***************************************************************************)
(* C39: sign_in_new runs terminate, backup, clear, launch in that order    *)
(* and returns an error only when the terminate step failed for a reason   *)
(* other than no process being found; then nothing else has run.  A failed *)
(* backup, clear or launch does not change the success result.             *)
(***************************************************************************)
C39_SignInNewStepsAndResult ==
  cmd.pc = "done" =>
    /\ cmd.ok => cmd.steps = <<"terminate", "backup", "clear", "launch">>
    /\ ~cmd.ok =>
         /\ cmd.steps = <<"terminate">>
         /\ ~(os \in SupportedOS /\ cmd.kill = "no_match")

=============================================================================
